---- MODULE Spec2Model ----
(***************************************************************************)
(* Model of honggfuzz's input mangling routines (mangle.c) and of the      *)
(* random-number helper they draw from (util.c).                           *)
(*                                                                         *)
(* The input buffer run->dynfile is the pair (data, size); data is the     *)
(* backing store, indexed from 0 as in the C code, and holds bytes 0..255. *)
(* Every mangle_* function is an operator from a run record to a run       *)
(* record.  Each call of the random-number generator is an explicit        *)
(* argument (a raw 64-bit draw, or a record d of raw draws, one field per  *)
(* call site), so an operator is a function of the buffer and the PRNG     *)
(* output it consumes.                                                     *)
(*                                                                         *)
(* run.oob   records an access to run->dynfile->data outside [0, size).    *)
(* run.fatal records that a LOG_F / l_FATAL branch was taken.              *)
(***************************************************************************)
EXTENDS Integers, Sequences, FiniteSets, TLC

\* ------------------------------------------------------------------ bounds
\* Largest mutate.maxInputSz of the configurations explored.
MaxInputSz == 3

\* mangle.c:43
HF_MAX_LEN_BLOCK == 512

\* honggfuzz.h (not among the sources): the hard cap on any input size.
HF_INPUT_MAX_SIZE == 134217728

Min(a, b) == IF a < b THEN a ELSE b
Max(a, b) == IF a > b THEN a ELSE b

\* --------------------------------------------------- uint64_t arithmetic
\* A uint64_t is the sequence of its base-2^14 digits, least significant
\* first, without leading zero digits (0 is <<>>): five digits, the fifth
\* below 2^8.  Every operation is exact modulo 2^64.
LimbBase == 2 ^ 14
TopBase == 2 ^ 8
Limbs == 5

Limb(a, k) == IF k <= Len(a) THEN a[k] ELSE 0

RECURSIVE Norm(_)
Norm(a) ==
    IF a = <<>> THEN a
    ELSE IF a[Len(a)] = 0 THEN Norm(SubSeq(a, 1, Len(a) - 1)) ELSE a

\* The value modulo 2^64.
Wrap64(a) ==
    Norm([k \in 1..Min(Len(a), Limbs) |->
            IF k = Limbs THEN a[k] % TopBase ELSE a[k]])

\* Digits of the number whose k-th digit position holds cs[k] (carries
\* propagated).
RECURSIVE Carry(_, _)
Carry(cs, c) ==
    IF cs = <<>>
    THEN (IF c = 0 THEN <<>> ELSE <<c % LimbBase>> \o Carry(<<>>, c \div LimbBase))
    ELSE <<(Head(cs) + c) % LimbBase>>
         \o Carry(Tail(cs), (Head(cs) + c) \div LimbBase)

\* A value below 2^31 as a uint64_t, and back.
ToU64(n) == Norm(Carry(<<n>>, 0))
FromU64(a) == Limb(a, 1) + LimbBase * Limb(a, 2) + LimbBase * LimbBase * Limb(a, 3)
FitsInt(a) == Len(a) <= 2 \/ (Len(a) = 3 /\ a[3] < 8)

AddFull(a, b) ==
    Norm(Carry([k \in 1..Max(Len(a), Len(b)) |-> Limb(a, k) + Limb(b, k)], 0))
Add64(a, b) == Wrap64(AddFull(a, b))

RECURSIVE LessFrom(_, _, _)
LessFrom(a, b, k) ==
    IF k = 0 THEN FALSE
    ELSE IF a[k] # b[k] THEN a[k] < b[k]
    ELSE LessFrom(a, b, k - 1)
Less64(a, b) ==
    IF Len(a) # Len(b) THEN Len(a) < Len(b) ELSE LessFrom(a, b, Len(a))

\* a - b for a >= b.
RECURSIVE Borrow(_, _, _, _)
Borrow(a, b, k, br) ==
    IF k > Len(a) THEN <<>>
    ELSE <<(a[k] - Limb(b, k) - br) % LimbBase>>
         \o Borrow(a, b, k + 1, IF a[k] - Limb(b, k) - br < 0 THEN 1 ELSE 0)
SubFull(a, b) == Norm(Borrow(a, b, 1, 0))

\* a - b modulo 2^64 (wraps when a < b).
Two64 == <<0, 0, 0, 0, TopBase>>
Sub64(a, b) ==
    IF Less64(a, b) THEN SubFull(Two64, SubFull(b, a)) ELSE SubFull(a, b)

RECURSIVE SumProd(_, _, _, _)
SumProd(a, b, k, i) ==
    IF i > k THEN 0
    ELSE Limb(a, i) * Limb(b, k + 1 - i) + SumProd(a, b, k, i + 1)
Mul64(a, b) ==
    IF a = <<>> \/ b = <<>> THEN <<>>
    ELSE Wrap64(Carry([k \in 1..Min(Len(a) + Len(b) - 1, Limbs) |->
                          SumProd(a, b, k, 1)], 0))

\* a times the digit v, not reduced.
MulDigit(a, v) == Norm(Carry([k \in 1..Len(a) |-> a[k] * v], 0))

\* The largest digit q with q * b <= r, for r < LimbBase * b: its bits from
\* 2^k downwards, acc being the bits above.
RECURSIVE QDigit(_, _, _, _)
QDigit(r, b, k, acc) ==
    IF k < 0 THEN acc
    ELSE IF Less64(r, MulDigit(b, acc + 2 ^ k))
    THEN QDigit(r, b, k - 1, acc)
    ELSE QDigit(r, b, k - 1, acc + 2 ^ k)

\* One step of long division: the digit d of the dividend brought down.
DivStep(prev, d, b) ==
    LET r == Norm(<<d>> \o prev.r)
        qd == QDigit(r, b, 13, 0)
    IN  [q |-> Norm(<<qd>> \o prev.q), r |-> SubFull(r, MulDigit(b, qd))]

\* Quotient and remainder of the digits k.. of a by b.
RECURSIVE LongDiv(_, _, _)
LongDiv(a, b, k) ==
    IF k > Len(a) THEN [q |-> <<>>, r |-> <<>>]
    ELSE DivStep(LongDiv(a, b, k + 1), a[k], b)

\* Division by a one-digit divisor, most significant digit first.
RECURSIVE ShortDiv(_, _, _, _)
ShortDiv(a, v, k, rem) ==
    IF k = 0 THEN [q |-> <<>>, r |-> rem]
    ELSE LET cur == rem * LimbBase + a[k]
             rest == ShortDiv(a, v, k - 1, cur % v)
         IN  [q |-> rest.q \o <<cur \div v>>, r |-> rest.r]

\* a / b and a % b, for b # 0.
DivMod64(a, b) ==
    IF Len(b) = 1
    THEN LET s == ShortDiv(a, b[1], Len(a), 0)
         IN  [q |-> Norm(s.q), r |-> ToU64(s.r)]
    ELSE LongDiv(a, b, 1)

\* ------------------------------------------------------------ util helpers

\* util.c:42-69.  rnd is the value of the local rnd at line 64 (the entropy
\* read mixed with the three microsecond samples); min, max and rnd are
\* uint64_t.  max - min + 1 is 0 for min = 0, max = 2^64 - 1: the remainder
\* by zero is undefined, ub says it was taken.
util_rndGet64(min, max, rnd) ==
    IF Less64(max, min)
    THEN [fatal |-> TRUE, ub |-> FALSE, ret |-> <<>>]
    ELSE LET span == Add64(Sub64(max, min), ToU64(1))
         IN  IF span = <<>>
             THEN [fatal |-> FALSE, ub |-> TRUE, ret |-> <<>>]
             ELSE [fatal |-> FALSE, ub |-> FALSE,
                   ret |-> Add64(DivMod64(rnd, span).r, min)]

\* util.c:42-69 on operands below 2^31, where no intermediate value wraps
\* (util_rndGet64 narrowed; SamplerAgree states the agreement).
util_rndGet(min, max, rnd) ==
    IF min > max
    THEN [fatal |-> TRUE, ret |-> 0]
    ELSE [fatal |-> FALSE, ret |-> (rnd % (max - min + 1)) + min]

\* Remap of one byte into [0x20, 0x7E].
util_turnToPrintable(b) == (b % 95) + 32

\* One random printable byte.
util_rndPrintable(rnd) == util_rndGet(32, 126, rnd).ret

\* ---------------------------------------------------------- buffer access

Fatal(run) == [run EXCEPT !.fatal = TRUE]

\* A source pointer of memmove: bytes outside the input buffer, or an address
\* inside run->dynfile->data (it then reads the buffer as it is when the copy
\* is made).
Ext(bytes) == [inB |-> FALSE, bytes |-> bytes, off |-> 0]
InB(off) == [inB |-> TRUE, bytes |-> <<>>, off |-> off]

PtrByte(run, src, k) ==
    IF src.inB
    THEN (IF src.off + k \in DOMAIN run.data THEN run.data[src.off + k] ELSE 0)
    ELSE (IF k + 1 <= Len(src.bytes) THEN src.bytes[k + 1] ELSE 0)

\* data[i]; the backing store is at least maxInputSz bytes long.
Rd(run, i) == IF i \in DOMAIN run.data THEN run.data[i] ELSE 0

\* The n bytes at data[off .. off+n) are touched (read or written).
Touch(run, off, n) ==
    IF n > 0 /\ off + n > run.size THEN [run EXCEPT !.oob = TRUE] ELSE run

\* Store F(k) at data[off + k] for k in 0..n-1.
Store(run, off, n, F(_)) ==
    [Touch(run, off, n) EXCEPT !.data =
        [i \in DOMAIN run.data |->
            IF i >= off /\ i < off + n THEN F(i - off) ELSE run.data[i]]]

\* memset(&data[off], val, n)
MemSetRaw(run, off, val, n) == Store(run, off, n, LAMBDA k : val)

\* buffer.set_size(n)
input_setSize(run, sz) == [run EXCEPT !.size = sz]

\* -------------------------------------------------------------- mangle.c

\* mangle.c:45-50
mangle_LenLeft(run, off) ==
    [fatal |-> off >= run.size, ret |-> run.size - off - 1]

\* mangle.c:53-80.  max and rnd are uint64_t; max2, max3 and rnd * rnd wrap
\* modulo 2^64 as the C products do.  When max3 is 0 the division at line 69
\* is undefined: dz is what the build does there ("trap": the process is
\* killed; otherwise the quotient the instruction leaves).
DivZeroOutcomes == {"trap", "zero", "ones"}
AllOnes64 == Sub64(<<>>, ToU64(1))

mangle_getLen64(max, rnd, dz) ==
    IF Less64(ToU64(HF_INPUT_MAX_SIZE), max) \/ max = <<>>
    THEN [fatal |-> TRUE, trap |-> FALSE, ret |-> <<>>]
    ELSE IF max = ToU64(1)
    THEN [fatal |-> FALSE, trap |-> FALSE, ret |-> ToU64(1)]
    ELSE LET max2 == Mul64(max, max)
             max3 == Mul64(Mul64(max, max), max)
             r == util_rndGet64(ToU64(1), Sub64(max2, ToU64(1)), rnd)
             sq == Mul64(r.ret, r.ret)
             quot == IF max3 # <<>> THEN DivMod64(sq, max3).q
                     ELSE IF dz = "ones" THEN AllOnes64 ELSE <<>>
             ret == Add64(quot, ToU64(1))
         IN  IF r.fatal \/ r.ub
             THEN [fatal |-> r.fatal, trap |-> r.ub, ret |-> <<>>]
             ELSE IF max3 = <<>> /\ dz = "trap"
             THEN [fatal |-> FALSE, trap |-> TRUE, ret |-> <<>>]
             ELSE [fatal |-> ret = <<>> \/ Less64(max, ret), trap |-> FALSE,
                   ret |-> ret]

\* mangle.c:53-80 on operands for which max^4 < 2^31, where no 64-bit product
\* wraps (mangle_getLen64 narrowed; SamplerAgree states the agreement).
mangle_getLen(max, rnd) ==
    IF max > HF_INPUT_MAX_SIZE \/ max = 0
    THEN [fatal |-> TRUE, ret |-> 0]
    ELSE IF max = 1
    THEN [fatal |-> FALSE, ret |-> 1]
    ELSE LET max2 == max * max
             max3 == max * max * max
             r == util_rndGet(1, max2 - 1, rnd)
             ret == ((r.ret * r.ret) \div max3) + 1
         IN  [fatal |-> r.fatal \/ ret < 1 \/ ret > max, ret |-> ret]

\* mangle.c:83-85
mangle_getOffSet(run, rnd) ==
    LET l == mangle_getLen(run.size, rnd)
    IN  [fatal |-> l.fatal, ret |-> l.ret - 1]

\* mangle_Move copying byte by byte from the front (memcpy on overlapping
\* ranges) instead of memmove.
mangle_Move_Forward(run, off_from, off_to, len) ==
    IF off_from >= run.size THEN run
    ELSE IF off_to >= run.size THEN run
    ELSE LET len2 == Min(Min(len, run.size - off_from), run.size - off_to)
         IN  Store(Touch(run, off_from, len2), off_to, len2,
                   LAMBDA k : IF off_to > off_from
                              THEN Rd(run, off_from + (k % (off_to - off_from)))
                              ELSE Rd(run, off_from + k))

\* mangle.c:87-102
mangle_Move(run, off_from, off_to, len) ==
    IF off_from >= run.size THEN run
    ELSE IF off_to >= run.size THEN run
    ELSE LET len_from == run.size - off_from
             len1 == Min(len, len_from)
             len_to == run.size - off_to
             len2 == Min(len1, len_to)
         IN  Store(Touch(run, off_from, len2), off_to, len2,
                   LAMBDA k : Rd(run, off_from + k))

\* mangle_Overwrite without the clamp of len to size - off.
mangle_Overwrite_Unclamped(run, off, src, len, printable) ==
    IF len = 0 THEN run
    ELSE Store(IF src.inB THEN Touch(run, src.off, len) ELSE run, off, len,
               LAMBDA k : IF printable
                          THEN util_turnToPrintable(PtrByte(run, src, k))
                          ELSE PtrByte(run, src, k))

\* mangle.c:104-118.  maxToCopy is a size_t: for off > size the subtraction
\* wraps to 2^64 - (off - size), which no len of the model exceeds.
mangle_Overwrite(run, off, src, len, printable) ==
    IF len = 0 THEN run
    ELSE LET len1 == IF off <= run.size /\ len > run.size - off
                     THEN run.size - off ELSE len
             rd == IF src.inB THEN Touch(run, src.off, len1) ELSE run
         IN  Store(rd, off, len1,
                   LAMBDA k : IF printable
                              THEN util_turnToPrintable(PtrByte(run, src, k))
                              ELSE PtrByte(run, src, k))

\* mangle_Inflate without the clamp of len to maxInputSz - size.
mangle_Inflate_NoClamp(run, off, len, printable) ==
    IF run.size >= run.maxInputSz
    THEN [run |-> run, len |-> 0]
    ELSE LET r1 == input_setSize(run, run.size + len)
             r2 == mangle_Move(r1, off, off + len, r1.size)
             r3 == IF printable THEN MemSetRaw(r2, off, 32, len) ELSE r2
         IN  [run |-> r3, len |-> len]

\* mangle_Inflate answering the requested len, not 0, when the input is
\* already at maxInputSz.
mangle_Inflate_LenAtCap(run, off, len, printable) ==
    IF run.size >= run.maxInputSz
    THEN [run |-> run, len |-> len]
    ELSE LET len1 == IF len > run.maxInputSz - run.size
                     THEN run.maxInputSz - run.size ELSE len
             r1 == input_setSize(run, run.size + len1)
             r2 == mangle_Move(r1, off, off + len1, r1.size)
             r3 == IF printable THEN MemSetRaw(r2, off, 32, len1) ELSE r2
         IN  [run |-> r3, len |-> len1]

\* mangle.c:120-135; the result is the run and the returned length.
mangle_Inflate(run, off, len, printable) ==
    IF run.size >= run.maxInputSz
    THEN [run |-> run, len |-> 0]
    ELSE LET len1 == IF len > run.maxInputSz - run.size
                     THEN run.maxInputSz - run.size ELSE len
             r1 == input_setSize(run, run.size + len1)
             r2 == mangle_Move(r1, off, off + len1, r1.size)
             r3 == IF printable THEN MemSetRaw(r2, off, 32, len1) ELSE r2
         IN  [run |-> r3, len |-> len1]

\* mangle.c:137-141
mangle_Insert(run, off, val, len, printable) ==
    LET inf == mangle_Inflate(run, off, len, printable)
    IN  mangle_Overwrite(inf.run, off, val, inf.len, printable)


\* util_rndBufPrintable / util_rndBuf: the bytes written, one raw draw each.
util_rndBufPrintable(raws) == [k \in DOMAIN raws |-> util_rndPrintable(raws[k])]
util_rndBuf(raws) == [k \in DOMAIN raws |-> raws[k] % 256]

\* The two bytes of "uint16_t buf" at mangle.c:162-167 and 175-180.
BytesBuf(printable, d) ==
    IF printable THEN util_rndBufPrintable(<<d.b0, d.b1>>)
    ELSE util_rndBuf(<<d.b0, d.b1>>)

\* mangle.c:143-149
mangle_MemCopyOverwrite(run, printable, d) ==
    LET f == mangle_getOffSet(run, d.off) IN
    IF f.fatal THEN Fatal(run) ELSE
    LET t == mangle_getOffSet(run, d.off2) IN
    IF t.fatal THEN Fatal(run) ELSE
    LET l == mangle_getLen(Min(HF_MAX_LEN_BLOCK, run.size - f.ret), d.len) IN
    IF l.fatal THEN Fatal(run) ELSE
    mangle_Overwrite(run, t.ret, InB(f.ret), l.ret, printable)

\* mangle.c:151-157
mangle_MemCopyInsert(run, printable, d) ==
    LET t == mangle_getOffSet(run, d.off) IN
    IF t.fatal THEN Fatal(run) ELSE
    LET f == mangle_getOffSet(run, d.off2) IN
    IF f.fatal THEN Fatal(run) ELSE
    LET l == mangle_getLen(Min(HF_MAX_LEN_BLOCK, run.size - f.ret), d.len) IN
    IF l.fatal THEN Fatal(run) ELSE
    mangle_Insert(run, t.ret, InB(f.ret), l.ret, printable)

\* mangle.c:159-172
mangle_BytesOverwrite(run, printable, d) ==
    LET o == mangle_getOffSet(run, d.off) IN
    IF o.fatal THEN Fatal(run) ELSE
    LET buf == BytesBuf(printable, d)
        toCopy == util_rndGet(1, 2, d.n).ret
    IN  mangle_Overwrite(run, o.ret, Ext(buf), toCopy, printable)

\* mangle.c:174-186
mangle_BytesInsert(run, printable, d) ==
    LET buf == BytesBuf(printable, d)
        o == mangle_getOffSet(run, d.off) IN
    IF o.fatal THEN Fatal(run) ELSE
    LET toCopy == util_rndGet(1, 2, d.n).ret
    IN  mangle_Insert(run, o.ret, Ext(buf), toCopy, printable)

\* mangle.c:188-201; the fall-through draws its own offset (d.off2).
mangle_ByteRepeatOverwrite(run, printable, d) ==
    LET o == mangle_getOffSet(run, d.off) IN
    IF o.fatal THEN Fatal(run) ELSE
    LET off == o.ret
        destOff == off + 1
        maxSz == run.size - destOff
    IN  IF maxSz = 0
        THEN mangle_BytesOverwrite(run, printable, [d EXCEPT !.off = d.off2])
        ELSE LET l == mangle_getLen(Min(HF_MAX_LEN_BLOCK, maxSz), d.len) IN
             IF l.fatal THEN Fatal(run) ELSE
             MemSetRaw(Touch(run, off, 1), destOff, Rd(run, off), l.ret)

\* mangle.c:203-217
mangle_ByteRepeatInsert(run, printable, d) ==
    LET o == mangle_getOffSet(run, d.off) IN
    IF o.fatal THEN Fatal(run) ELSE
    LET off == o.ret
        destOff == off + 1
        maxSz == run.size - destOff
    IN  IF maxSz = 0
        THEN mangle_BytesInsert(run, printable, [d EXCEPT !.off = d.off2])
        ELSE LET l == mangle_getLen(Min(HF_MAX_LEN_BLOCK, maxSz), d.len) IN
             IF l.fatal THEN Fatal(run) ELSE
             LET inf == mangle_Inflate(run, destOff, l.ret, printable)
             IN  MemSetRaw(Touch(inf.run, off, 1), destOff, Rd(inf.run, off), inf.len)

\* b ^ (1 << bit)
XorBit(b, bit) ==
    IF (b \div (2 ^ bit)) % 2 = 1 THEN b - (2 ^ bit) ELSE b + (2 ^ bit)

\* mangle.c:219-225
mangle_Bit(run, printable, d) ==
    LET o == mangle_getOffSet(run, d.off) IN
    IF o.fatal THEN Fatal(run) ELSE
    LET off == o.ret
        v == XorBit(Rd(run, off), util_rndGet(0, 7, d.bit).ret)
    IN  Store(run, off, 1,
              LAMBDA k : IF printable THEN util_turnToPrintable(v) ELSE v)

\* mangle.c:227-462, byte for byte.
mangleMagicVals == <<
    [val |-> <<0, 0, 0, 0, 0, 0, 0, 0>>, size |-> 1],
    [val |-> <<1, 0, 0, 0, 0, 0, 0, 0>>, size |-> 1],
    [val |-> <<2, 0, 0, 0, 0, 0, 0, 0>>, size |-> 1],
    [val |-> <<3, 0, 0, 0, 0, 0, 0, 0>>, size |-> 1],
    [val |-> <<4, 0, 0, 0, 0, 0, 0, 0>>, size |-> 1],
    [val |-> <<5, 0, 0, 0, 0, 0, 0, 0>>, size |-> 1],
    [val |-> <<6, 0, 0, 0, 0, 0, 0, 0>>, size |-> 1],
    [val |-> <<7, 0, 0, 0, 0, 0, 0, 0>>, size |-> 1],
    [val |-> <<8, 0, 0, 0, 0, 0, 0, 0>>, size |-> 1],
    [val |-> <<9, 0, 0, 0, 0, 0, 0, 0>>, size |-> 1],
    [val |-> <<10, 0, 0, 0, 0, 0, 0, 0>>, size |-> 1],
    [val |-> <<11, 0, 0, 0, 0, 0, 0, 0>>, size |-> 1],
    [val |-> <<12, 0, 0, 0, 0, 0, 0, 0>>, size |-> 1],
    [val |-> <<13, 0, 0, 0, 0, 0, 0, 0>>, size |-> 1],
    [val |-> <<14, 0, 0, 0, 0, 0, 0, 0>>, size |-> 1],
    [val |-> <<15, 0, 0, 0, 0, 0, 0, 0>>, size |-> 1],
    [val |-> <<16, 0, 0, 0, 0, 0, 0, 0>>, size |-> 1],
    [val |-> <<32, 0, 0, 0, 0, 0, 0, 0>>, size |-> 1],
    [val |-> <<64, 0, 0, 0, 0, 0, 0, 0>>, size |-> 1],
    [val |-> <<126, 0, 0, 0, 0, 0, 0, 0>>, size |-> 1],
    [val |-> <<127, 0, 0, 0, 0, 0, 0, 0>>, size |-> 1],
    [val |-> <<128, 0, 0, 0, 0, 0, 0, 0>>, size |-> 1],
    [val |-> <<129, 0, 0, 0, 0, 0, 0, 0>>, size |-> 1],
    [val |-> <<192, 0, 0, 0, 0, 0, 0, 0>>, size |-> 1],
    [val |-> <<254, 0, 0, 0, 0, 0, 0, 0>>, size |-> 1],
    [val |-> <<255, 0, 0, 0, 0, 0, 0, 0>>, size |-> 1],
    [val |-> <<0, 0, 0, 0, 0, 0, 0, 0>>, size |-> 2],
    [val |-> <<1, 1, 0, 0, 0, 0, 0, 0>>, size |-> 2],
    [val |-> <<128, 128, 0, 0, 0, 0, 0, 0>>, size |-> 2],
    [val |-> <<255, 255, 0, 0, 0, 0, 0, 0>>, size |-> 2],
    [val |-> <<0, 1, 0, 0, 0, 0, 0, 0>>, size |-> 2],
    [val |-> <<0, 2, 0, 0, 0, 0, 0, 0>>, size |-> 2],
    [val |-> <<0, 3, 0, 0, 0, 0, 0, 0>>, size |-> 2],
    [val |-> <<0, 4, 0, 0, 0, 0, 0, 0>>, size |-> 2],
    [val |-> <<0, 5, 0, 0, 0, 0, 0, 0>>, size |-> 2],
    [val |-> <<0, 6, 0, 0, 0, 0, 0, 0>>, size |-> 2],
    [val |-> <<0, 7, 0, 0, 0, 0, 0, 0>>, size |-> 2],
    [val |-> <<0, 8, 0, 0, 0, 0, 0, 0>>, size |-> 2],
    [val |-> <<0, 9, 0, 0, 0, 0, 0, 0>>, size |-> 2],
    [val |-> <<0, 10, 0, 0, 0, 0, 0, 0>>, size |-> 2],
    [val |-> <<0, 11, 0, 0, 0, 0, 0, 0>>, size |-> 2],
    [val |-> <<0, 12, 0, 0, 0, 0, 0, 0>>, size |-> 2],
    [val |-> <<0, 13, 0, 0, 0, 0, 0, 0>>, size |-> 2],
    [val |-> <<0, 14, 0, 0, 0, 0, 0, 0>>, size |-> 2],
    [val |-> <<0, 15, 0, 0, 0, 0, 0, 0>>, size |-> 2],
    [val |-> <<0, 16, 0, 0, 0, 0, 0, 0>>, size |-> 2],
    [val |-> <<0, 32, 0, 0, 0, 0, 0, 0>>, size |-> 2],
    [val |-> <<0, 64, 0, 0, 0, 0, 0, 0>>, size |-> 2],
    [val |-> <<0, 126, 0, 0, 0, 0, 0, 0>>, size |-> 2],
    [val |-> <<0, 127, 0, 0, 0, 0, 0, 0>>, size |-> 2],
    [val |-> <<0, 128, 0, 0, 0, 0, 0, 0>>, size |-> 2],
    [val |-> <<0, 129, 0, 0, 0, 0, 0, 0>>, size |-> 2],
    [val |-> <<0, 192, 0, 0, 0, 0, 0, 0>>, size |-> 2],
    [val |-> <<0, 254, 0, 0, 0, 0, 0, 0>>, size |-> 2],
    [val |-> <<0, 255, 0, 0, 0, 0, 0, 0>>, size |-> 2],
    [val |-> <<126, 255, 0, 0, 0, 0, 0, 0>>, size |-> 2],
    [val |-> <<127, 255, 0, 0, 0, 0, 0, 0>>, size |-> 2],
    [val |-> <<128, 0, 0, 0, 0, 0, 0, 0>>, size |-> 2],
    [val |-> <<128, 1, 0, 0, 0, 0, 0, 0>>, size |-> 2],
    [val |-> <<255, 254, 0, 0, 0, 0, 0, 0>>, size |-> 2],
    [val |-> <<0, 0, 0, 0, 0, 0, 0, 0>>, size |-> 2],
    [val |-> <<1, 0, 0, 0, 0, 0, 0, 0>>, size |-> 2],
    [val |-> <<2, 0, 0, 0, 0, 0, 0, 0>>, size |-> 2],
    [val |-> <<3, 0, 0, 0, 0, 0, 0, 0>>, size |-> 2],
    [val |-> <<4, 0, 0, 0, 0, 0, 0, 0>>, size |-> 2],
    [val |-> <<5, 0, 0, 0, 0, 0, 0, 0>>, size |-> 2],
    [val |-> <<6, 0, 0, 0, 0, 0, 0, 0>>, size |-> 2],
    [val |-> <<7, 0, 0, 0, 0, 0, 0, 0>>, size |-> 2],
    [val |-> <<8, 0, 0, 0, 0, 0, 0, 0>>, size |-> 2],
    [val |-> <<9, 0, 0, 0, 0, 0, 0, 0>>, size |-> 2],
    [val |-> <<10, 0, 0, 0, 0, 0, 0, 0>>, size |-> 2],
    [val |-> <<11, 0, 0, 0, 0, 0, 0, 0>>, size |-> 2],
    [val |-> <<12, 0, 0, 0, 0, 0, 0, 0>>, size |-> 2],
    [val |-> <<13, 0, 0, 0, 0, 0, 0, 0>>, size |-> 2],
    [val |-> <<14, 0, 0, 0, 0, 0, 0, 0>>, size |-> 2],
    [val |-> <<15, 0, 0, 0, 0, 0, 0, 0>>, size |-> 2],
    [val |-> <<16, 0, 0, 0, 0, 0, 0, 0>>, size |-> 2],
    [val |-> <<32, 0, 0, 0, 0, 0, 0, 0>>, size |-> 2],
    [val |-> <<64, 0, 0, 0, 0, 0, 0, 0>>, size |-> 2],
    [val |-> <<126, 0, 0, 0, 0, 0, 0, 0>>, size |-> 2],
    [val |-> <<127, 0, 0, 0, 0, 0, 0, 0>>, size |-> 2],
    [val |-> <<128, 0, 0, 0, 0, 0, 0, 0>>, size |-> 2],
    [val |-> <<129, 0, 0, 0, 0, 0, 0, 0>>, size |-> 2],
    [val |-> <<192, 0, 0, 0, 0, 0, 0, 0>>, size |-> 2],
    [val |-> <<254, 0, 0, 0, 0, 0, 0, 0>>, size |-> 2],
    [val |-> <<255, 0, 0, 0, 0, 0, 0, 0>>, size |-> 2],
    [val |-> <<255, 126, 0, 0, 0, 0, 0, 0>>, size |-> 2],
    [val |-> <<255, 127, 0, 0, 0, 0, 0, 0>>, size |-> 2],
    [val |-> <<0, 128, 0, 0, 0, 0, 0, 0>>, size |-> 2],
    [val |-> <<1, 128, 0, 0, 0, 0, 0, 0>>, size |-> 2],
    [val |-> <<254, 255, 0, 0, 0, 0, 0, 0>>, size |-> 2],
    [val |-> <<0, 0, 0, 0, 0, 0, 0, 0>>, size |-> 4],
    [val |-> <<1, 1, 1, 1, 0, 0, 0, 0>>, size |-> 4],
    [val |-> <<128, 128, 128, 128, 0, 0, 0, 0>>, size |-> 4],
    [val |-> <<255, 255, 255, 255, 0, 0, 0, 0>>, size |-> 4],
    [val |-> <<0, 0, 0, 1, 0, 0, 0, 0>>, size |-> 4],
    [val |-> <<0, 0, 0, 2, 0, 0, 0, 0>>, size |-> 4],
    [val |-> <<0, 0, 0, 3, 0, 0, 0, 0>>, size |-> 4],
    [val |-> <<0, 0, 0, 4, 0, 0, 0, 0>>, size |-> 4],
    [val |-> <<0, 0, 0, 5, 0, 0, 0, 0>>, size |-> 4],
    [val |-> <<0, 0, 0, 6, 0, 0, 0, 0>>, size |-> 4],
    [val |-> <<0, 0, 0, 7, 0, 0, 0, 0>>, size |-> 4],
    [val |-> <<0, 0, 0, 8, 0, 0, 0, 0>>, size |-> 4],
    [val |-> <<0, 0, 0, 9, 0, 0, 0, 0>>, size |-> 4],
    [val |-> <<0, 0, 0, 10, 0, 0, 0, 0>>, size |-> 4],
    [val |-> <<0, 0, 0, 11, 0, 0, 0, 0>>, size |-> 4],
    [val |-> <<0, 0, 0, 12, 0, 0, 0, 0>>, size |-> 4],
    [val |-> <<0, 0, 0, 13, 0, 0, 0, 0>>, size |-> 4],
    [val |-> <<0, 0, 0, 14, 0, 0, 0, 0>>, size |-> 4],
    [val |-> <<0, 0, 0, 15, 0, 0, 0, 0>>, size |-> 4],
    [val |-> <<0, 0, 0, 16, 0, 0, 0, 0>>, size |-> 4],
    [val |-> <<0, 0, 0, 32, 0, 0, 0, 0>>, size |-> 4],
    [val |-> <<0, 0, 0, 64, 0, 0, 0, 0>>, size |-> 4],
    [val |-> <<0, 0, 0, 126, 0, 0, 0, 0>>, size |-> 4],
    [val |-> <<0, 0, 0, 127, 0, 0, 0, 0>>, size |-> 4],
    [val |-> <<0, 0, 0, 128, 0, 0, 0, 0>>, size |-> 4],
    [val |-> <<0, 0, 0, 129, 0, 0, 0, 0>>, size |-> 4],
    [val |-> <<0, 0, 0, 192, 0, 0, 0, 0>>, size |-> 4],
    [val |-> <<0, 0, 0, 254, 0, 0, 0, 0>>, size |-> 4],
    [val |-> <<0, 0, 0, 255, 0, 0, 0, 0>>, size |-> 4],
    [val |-> <<126, 255, 255, 255, 0, 0, 0, 0>>, size |-> 4],
    [val |-> <<127, 255, 255, 255, 0, 0, 0, 0>>, size |-> 4],
    [val |-> <<128, 0, 0, 0, 0, 0, 0, 0>>, size |-> 4],
    [val |-> <<128, 0, 0, 1, 0, 0, 0, 0>>, size |-> 4],
    [val |-> <<255, 255, 255, 254, 0, 0, 0, 0>>, size |-> 4],
    [val |-> <<0, 0, 0, 0, 0, 0, 0, 0>>, size |-> 4],
    [val |-> <<1, 0, 0, 0, 0, 0, 0, 0>>, size |-> 4],
    [val |-> <<2, 0, 0, 0, 0, 0, 0, 0>>, size |-> 4],
    [val |-> <<3, 0, 0, 0, 0, 0, 0, 0>>, size |-> 4],
    [val |-> <<4, 0, 0, 0, 0, 0, 0, 0>>, size |-> 4],
    [val |-> <<5, 0, 0, 0, 0, 0, 0, 0>>, size |-> 4],
    [val |-> <<6, 0, 0, 0, 0, 0, 0, 0>>, size |-> 4],
    [val |-> <<7, 0, 0, 0, 0, 0, 0, 0>>, size |-> 4],
    [val |-> <<8, 0, 0, 0, 0, 0, 0, 0>>, size |-> 4],
    [val |-> <<9, 0, 0, 0, 0, 0, 0, 0>>, size |-> 4],
    [val |-> <<10, 0, 0, 0, 0, 0, 0, 0>>, size |-> 4],
    [val |-> <<11, 0, 0, 0, 0, 0, 0, 0>>, size |-> 4],
    [val |-> <<12, 0, 0, 0, 0, 0, 0, 0>>, size |-> 4],
    [val |-> <<13, 0, 0, 0, 0, 0, 0, 0>>, size |-> 4],
    [val |-> <<14, 0, 0, 0, 0, 0, 0, 0>>, size |-> 4],
    [val |-> <<15, 0, 0, 0, 0, 0, 0, 0>>, size |-> 4],
    [val |-> <<16, 0, 0, 0, 0, 0, 0, 0>>, size |-> 4],
    [val |-> <<32, 0, 0, 0, 0, 0, 0, 0>>, size |-> 4],
    [val |-> <<64, 0, 0, 0, 0, 0, 0, 0>>, size |-> 4],
    [val |-> <<126, 0, 0, 0, 0, 0, 0, 0>>, size |-> 4],
    [val |-> <<127, 0, 0, 0, 0, 0, 0, 0>>, size |-> 4],
    [val |-> <<128, 0, 0, 0, 0, 0, 0, 0>>, size |-> 4],
    [val |-> <<129, 0, 0, 0, 0, 0, 0, 0>>, size |-> 4],
    [val |-> <<192, 0, 0, 0, 0, 0, 0, 0>>, size |-> 4],
    [val |-> <<254, 0, 0, 0, 0, 0, 0, 0>>, size |-> 4],
    [val |-> <<255, 0, 0, 0, 0, 0, 0, 0>>, size |-> 4],
    [val |-> <<255, 255, 255, 126, 0, 0, 0, 0>>, size |-> 4],
    [val |-> <<255, 255, 255, 127, 0, 0, 0, 0>>, size |-> 4],
    [val |-> <<0, 0, 0, 128, 0, 0, 0, 0>>, size |-> 4],
    [val |-> <<1, 0, 0, 128, 0, 0, 0, 0>>, size |-> 4],
    [val |-> <<254, 255, 255, 255, 0, 0, 0, 0>>, size |-> 4],
    [val |-> <<0, 0, 0, 0, 0, 0, 0, 0>>, size |-> 8],
    [val |-> <<1, 1, 1, 1, 1, 1, 1, 1>>, size |-> 8],
    [val |-> <<128, 128, 128, 128, 128, 128, 128, 128>>, size |-> 8],
    [val |-> <<255, 255, 255, 255, 255, 255, 255, 255>>, size |-> 8],
    [val |-> <<0, 0, 0, 0, 0, 0, 0, 1>>, size |-> 8],
    [val |-> <<0, 0, 0, 0, 0, 0, 0, 2>>, size |-> 8],
    [val |-> <<0, 0, 0, 0, 0, 0, 0, 3>>, size |-> 8],
    [val |-> <<0, 0, 0, 0, 0, 0, 0, 4>>, size |-> 8],
    [val |-> <<0, 0, 0, 0, 0, 0, 0, 5>>, size |-> 8],
    [val |-> <<0, 0, 0, 0, 0, 0, 0, 6>>, size |-> 8],
    [val |-> <<0, 0, 0, 0, 0, 0, 0, 7>>, size |-> 8],
    [val |-> <<0, 0, 0, 0, 0, 0, 0, 8>>, size |-> 8],
    [val |-> <<0, 0, 0, 0, 0, 0, 0, 9>>, size |-> 8],
    [val |-> <<0, 0, 0, 0, 0, 0, 0, 10>>, size |-> 8],
    [val |-> <<0, 0, 0, 0, 0, 0, 0, 11>>, size |-> 8],
    [val |-> <<0, 0, 0, 0, 0, 0, 0, 12>>, size |-> 8],
    [val |-> <<0, 0, 0, 0, 0, 0, 0, 13>>, size |-> 8],
    [val |-> <<0, 0, 0, 0, 0, 0, 0, 14>>, size |-> 8],
    [val |-> <<0, 0, 0, 0, 0, 0, 0, 15>>, size |-> 8],
    [val |-> <<0, 0, 0, 0, 0, 0, 0, 16>>, size |-> 8],
    [val |-> <<0, 0, 0, 0, 0, 0, 0, 32>>, size |-> 8],
    [val |-> <<0, 0, 0, 0, 0, 0, 0, 64>>, size |-> 8],
    [val |-> <<0, 0, 0, 0, 0, 0, 0, 126>>, size |-> 8],
    [val |-> <<0, 0, 0, 0, 0, 0, 0, 127>>, size |-> 8],
    [val |-> <<0, 0, 0, 0, 0, 0, 0, 128>>, size |-> 8],
    [val |-> <<0, 0, 0, 0, 0, 0, 0, 129>>, size |-> 8],
    [val |-> <<0, 0, 0, 0, 0, 0, 0, 192>>, size |-> 8],
    [val |-> <<0, 0, 0, 0, 0, 0, 0, 254>>, size |-> 8],
    [val |-> <<0, 0, 0, 0, 0, 0, 0, 255>>, size |-> 8],
    [val |-> <<126, 255, 255, 255, 255, 255, 255, 255>>, size |-> 8],
    [val |-> <<127, 255, 255, 255, 255, 255, 255, 255>>, size |-> 8],
    [val |-> <<128, 0, 0, 0, 0, 0, 0, 0>>, size |-> 8],
    [val |-> <<128, 0, 0, 0, 0, 0, 0, 1>>, size |-> 8],
    [val |-> <<255, 255, 255, 255, 255, 255, 255, 254>>, size |-> 8],
    [val |-> <<0, 0, 0, 0, 0, 0, 0, 0>>, size |-> 8],
    [val |-> <<1, 0, 0, 0, 0, 0, 0, 0>>, size |-> 8],
    [val |-> <<2, 0, 0, 0, 0, 0, 0, 0>>, size |-> 8],
    [val |-> <<3, 0, 0, 0, 0, 0, 0, 0>>, size |-> 8],
    [val |-> <<4, 0, 0, 0, 0, 0, 0, 0>>, size |-> 8],
    [val |-> <<5, 0, 0, 0, 0, 0, 0, 0>>, size |-> 8],
    [val |-> <<6, 0, 0, 0, 0, 0, 0, 0>>, size |-> 8],
    [val |-> <<7, 0, 0, 0, 0, 0, 0, 0>>, size |-> 8],
    [val |-> <<8, 0, 0, 0, 0, 0, 0, 0>>, size |-> 8],
    [val |-> <<9, 0, 0, 0, 0, 0, 0, 0>>, size |-> 8],
    [val |-> <<10, 0, 0, 0, 0, 0, 0, 0>>, size |-> 8],
    [val |-> <<11, 0, 0, 0, 0, 0, 0, 0>>, size |-> 8],
    [val |-> <<12, 0, 0, 0, 0, 0, 0, 0>>, size |-> 8],
    [val |-> <<13, 0, 0, 0, 0, 0, 0, 0>>, size |-> 8],
    [val |-> <<14, 0, 0, 0, 0, 0, 0, 0>>, size |-> 8],
    [val |-> <<15, 0, 0, 0, 0, 0, 0, 0>>, size |-> 8],
    [val |-> <<16, 0, 0, 0, 0, 0, 0, 0>>, size |-> 8],
    [val |-> <<32, 0, 0, 0, 0, 0, 0, 0>>, size |-> 8],
    [val |-> <<64, 0, 0, 0, 0, 0, 0, 0>>, size |-> 8],
    [val |-> <<126, 0, 0, 0, 0, 0, 0, 0>>, size |-> 8],
    [val |-> <<127, 0, 0, 0, 0, 0, 0, 0>>, size |-> 8],
    [val |-> <<128, 0, 0, 0, 0, 0, 0, 0>>, size |-> 8],
    [val |-> <<129, 0, 0, 0, 0, 0, 0, 0>>, size |-> 8],
    [val |-> <<192, 0, 0, 0, 0, 0, 0, 0>>, size |-> 8],
    [val |-> <<254, 0, 0, 0, 0, 0, 0, 0>>, size |-> 8],
    [val |-> <<255, 0, 0, 0, 0, 0, 0, 0>>, size |-> 8],
    [val |-> <<255, 255, 255, 255, 255, 255, 255, 126>>, size |-> 8],
    [val |-> <<255, 255, 255, 255, 255, 255, 255, 127>>, size |-> 8],
    [val |-> <<0, 0, 0, 0, 0, 0, 0, 128>>, size |-> 8],
    [val |-> <<1, 0, 0, 0, 0, 0, 0, 128>>, size |-> 8],
    [val |-> <<254, 255, 255, 255, 255, 255, 255, 255>>, size |-> 8]
>>
\* ARRAYSIZE(mangleMagicVals)
MagicCnt == Len(mangleMagicVals)

\* mangle.c:464-469
mangle_MagicOverwrite(run, printable, d) ==
    LET o == mangle_getOffSet(run, d.off) IN
    IF o.fatal THEN Fatal(run) ELSE
    LET choice == util_rndGet(0, MagicCnt - 1, d.choice).ret
        m == mangleMagicVals[choice + 1]
    IN  mangle_Overwrite(run, o.ret, Ext(m.val), m.size, printable)

\* mangle.c:471-475
mangle_MagicInsert(run, printable, d) ==
    LET choice == util_rndGet(0, MagicCnt - 1, d.choice).ret
        m == mangleMagicVals[choice + 1]
        o == mangle_getOffSet(run, d.off) IN
    IF o.fatal THEN Fatal(run) ELSE
    mangle_Insert(run, o.ret, Ext(m.val), m.size, printable)

\* mangle.c:477-486
mangle_DictionaryOverwrite(run, printable, d) ==
    IF run.dictionaryCnt = 0
    THEN mangle_BytesOverwrite(run, printable, d)
    ELSE LET o == mangle_getOffSet(run, d.off) IN
         IF o.fatal THEN Fatal(run) ELSE
         LET c == util_rndGet(0, run.dictionaryCnt - 1, d.choice).ret
             e == run.dictionary[c + 1]
         IN  mangle_Overwrite(run, o.ret, Ext(e.val), e.len, printable)

\* mangle_DictionaryInsert falling back to the overwriting Bytes variant.
mangle_DictionaryInsert_Overwrite(run, printable, d) ==
    IF run.dictionaryCnt = 0
    THEN mangle_BytesOverwrite(run, printable, d)
    ELSE LET choice == util_rndGet(0, run.dictionaryCnt - 1, d.choice).ret
             o == mangle_getOffSet(run, d.off)
         IN  IF o.fatal THEN Fatal(run) ELSE
             mangle_Insert(run, o.ret, Ext(run.dictionary[choice + 1].val),
                           run.dictionary[choice + 1].len, printable)

\* mangle.c:488-497
mangle_DictionaryInsert(run, printable, d) ==
    IF run.dictionaryCnt = 0
    THEN mangle_BytesInsert(run, printable, d)
    ELSE LET c == util_rndGet(0, run.dictionaryCnt - 1, d.choice).ret
             e == run.dictionary[c + 1]
             o == mangle_getOffSet(run, d.off) IN
         IF o.fatal THEN Fatal(run) ELSE
         mangle_Insert(run, o.ret, Ext(e.val), e.len, printable)

\* mangle.c:541-547
mangle_MemSet(run, printable, d) ==
    LET o == mangle_getOffSet(run, d.off) IN
    IF o.fatal THEN Fatal(run) ELSE
    LET l == mangle_getLen(Min(HF_MAX_LEN_BLOCK, run.size - o.ret), d.len) IN
    IF l.fatal THEN Fatal(run) ELSE
    LET val == IF printable THEN util_rndPrintable(d.val)
               ELSE util_rndGet(0, 255, d.val).ret
    IN  MemSetRaw(run, o.ret, val, l.ret)

\* The bytes util_rndBufPrintable / util_rndBuf store at &data[off].
RandomFill(run, off, len, printable, d) ==
    LET bytes == IF printable THEN util_rndBufPrintable(d.buf)
                 ELSE util_rndBuf(d.buf)
    IN  Store(run, off, len, LAMBDA k : bytes[(k % Len(bytes)) + 1])

\* mangle.c:549-557
mangle_RandomOverwrite(run, printable, d) ==
    LET o == mangle_getOffSet(run, d.off) IN
    IF o.fatal THEN Fatal(run) ELSE
    LET l == mangle_getLen(Min(HF_MAX_LEN_BLOCK, run.size - o.ret), d.len) IN
    IF l.fatal THEN Fatal(run) ELSE
    RandomFill(run, o.ret, l.ret, printable, d)

\* mangle.c:559-570
mangle_RandomInsert(run, printable, d) ==
    LET o == mangle_getOffSet(run, d.off) IN
    IF o.fatal THEN Fatal(run) ELSE
    LET l == mangle_getLen(Min(HF_MAX_LEN_BLOCK, run.size - o.ret), d.len) IN
    IF l.fatal THEN Fatal(run) ELSE
    LET inf == mangle_Inflate(run, o.ret, l.ret, printable)
    IN  RandomFill(inf.run, o.ret, inf.len, printable, d)

\* ARRAYSIZE(cmpf->valArr) and sizeof(cmpf->valArr[0].val), scaled down.
CmpfArrSz == 2
CmpfValSz == 2

\* mangle_FeedbackDict without the cap of cnt at ARRAYSIZE(valArr).
mangle_FeedbackDict_NoCap(run, cnt, rnd) ==
    IF ~run.cmpFeedback THEN [null |-> TRUE, choice |-> 0]
    ELSE IF cnt = 0 THEN [null |-> TRUE, choice |-> 0]
    ELSE [null |-> FALSE, choice |-> util_rndGet(0, cnt - 1, rnd).ret]

\* mangle.c:499-511.  cnt is the value ATOMIC_GET(cmpf->cnt) returned.
mangle_FeedbackDict(run, cnt, rnd) ==
    IF ~run.cmpFeedback THEN [null |-> TRUE, choice |-> 0]
    ELSE IF cnt = 0 THEN [null |-> TRUE, choice |-> 0]
    ELSE LET c == IF cnt > CmpfArrSz THEN CmpfArrSz ELSE cnt
         IN  [null |-> FALSE, choice |-> util_rndGet(0, c - 1, rnd).ret]

\* The bytes a copy of len bytes from valArr[choice].val reads: the array,
\* then whatever follows it in memory.
FeedbackVal(entry, d) ==
    Ext(entry.val \o [k \in 1..MaxInputSz |-> d.junk % 256])

\* mangle.c:512-516 and 522-527.  entry is valArr[choice] as read: entry.len
\* is what ATOMIC_GET(cmpf->valArr[choice].len) returned.
mangle_ConstFeedbackInsert(run, printable, entry, d) ==
    IF entry.len = 0
    THEN mangle_BytesInsert(run, printable, d)
    ELSE LET o == mangle_getOffSet(run, d.off) IN
         IF o.fatal THEN Fatal(run) ELSE
         mangle_Insert(run, o.ret, FeedbackVal(entry, d), entry.len, printable)

\* mangle.c:512-516 and 533-538
mangle_ConstFeedbackOverwrite(run, printable, entry, d) ==
    IF entry.len = 0
    THEN mangle_BytesOverwrite(run, printable, d)
    ELSE LET o == mangle_getOffSet(run, d.off) IN
         IF o.fatal THEN Fatal(run) ELSE
         mangle_Overwrite(run, o.ret, FeedbackVal(entry, d), entry.len, printable)

\* Little-endian two's-complement bytes of delta on w bytes (|delta| < 2^31).
DeltaBytes(delta, w) ==
    [k \in 1..w |->
        IF delta >= 0
        THEN (IF k <= 4 THEN (delta \div (256 ^ (k - 1))) % 256 ELSE 0)
        ELSE (IF k <= 4 THEN 255 - (((-delta - 1) \div (256 ^ (k - 1))) % 256)
              ELSE 255)]

\* a + b modulo 256^Len(a), both little-endian byte sequences.
RECURSIVE AddCarry(_, _, _, _)
AddCarry(a, b, k, c) ==
    IF k > Len(a) THEN <<>>
    ELSE <<(a[k] + b[k] + c) % 256>> \o AddCarry(a, b, k + 1, (a[k] + b[k] + c) \div 256)

AddLE(a, b) == AddCarry(a, b, 1, 0)

\* __builtin_bswap16/32/64 on the bytes of the value
Bswap(a) == [k \in 1..Len(a) |-> a[Len(a) + 1 - k]]

\* mangle.c:572-627
mangle_AddSubWithRange(run, off, varLen, range, printable, d) ==
    LET delta == util_rndGet(0, range * 2, d.delta).ret - range
    IN  IF varLen = 1
        THEN Store(run, off, 1, LAMBDA k : (Rd(run, off) + delta + 256) % 256)
        ELSE IF varLen \in {2, 4, 8}
        THEN LET val == [k \in 1..varLen |-> Rd(run, off + k - 1)]
                 db == DeltaBytes(delta, varLen)
                 sum == IF d.endian % 2 = 1
                        THEN AddLE(val, db)
                        ELSE Bswap(AddLE(Bswap(val), db))
             IN  mangle_Overwrite(Touch(run, off, varLen), off, Ext(sum), varLen,
                                  printable)
        ELSE Fatal(run)

\* mangle.c:629-657
mangle_AddSub(run, printable, d) ==
    LET o == mangle_getOffSet(run, d.off) IN
    IF o.fatal THEN Fatal(run) ELSE
    LET off == o.ret
        w0 == 2 ^ util_rndGet(0, 3, d.w).ret
        varLen == IF run.size - off < w0 THEN 1 ELSE w0
    IN  IF varLen = 1 THEN mangle_AddSubWithRange(run, off, varLen, 16, printable, d)
        ELSE IF varLen = 2
        THEN mangle_AddSubWithRange(run, off, varLen, 4096, printable, d)
        ELSE IF varLen = 4
        THEN mangle_AddSubWithRange(run, off, varLen, 1048576, printable, d)
        ELSE IF varLen = 8
        THEN mangle_AddSubWithRange(run, off, varLen, 268435456, printable, d)
        ELSE Fatal(run)

\* C's a % b for b > 0 (the quotient truncates toward zero).
CRem(a, b) == IF a >= 0 THEN a % b ELSE -((-a) % b)

\* The value an int expression leaves in a uint8_t.
U8(x) == ((x % 256) + 256) % 256

\* mangle_IncByte adding 1 modulo 256 in printable mode too.
mangle_IncByte_NoRing(run, printable, d) ==
    LET o == mangle_getOffSet(run, d.off) IN
    IF o.fatal THEN Fatal(run) ELSE
    LET b == Rd(run, o.ret)
    IN  Store(run, o.ret, 1, LAMBDA k : U8(b + 1))

\* mangle.c:659-666
mangle_IncByte(run, printable, d) ==
    LET o == mangle_getOffSet(run, d.off) IN
    IF o.fatal THEN Fatal(run) ELSE
    LET b == Rd(run, o.ret)
    IN  Store(run, o.ret, 1,
              LAMBDA k : IF printable THEN U8(CRem(b - 32 + 1, 95) + 32)
                         ELSE U8(b + 1))

\* mangle.c:668-675
mangle_DecByte(run, printable, d) ==
    LET o == mangle_getOffSet(run, d.off) IN
    IF o.fatal THEN Fatal(run) ELSE
    LET b == Rd(run, o.ret)
    IN  Store(run, o.ret, 1,
              LAMBDA k : IF printable THEN U8(CRem(b - 32 + 94, 95) + 32)
                         ELSE U8(b - 1))

\* mangle.c:677-684
mangle_NegByte(run, printable, d) ==
    LET o == mangle_getOffSet(run, d.off) IN
    IF o.fatal THEN Fatal(run) ELSE
    LET b == Rd(run, o.ret)
    IN  Store(run, o.ret, 1,
              LAMBDA k : IF printable THEN U8(94 - (b - 32) + 32)
                         ELSE 255 - b)

\* mangle.c:686-696
mangle_Expand(run, printable, d) ==
    LET o == mangle_getOffSet(run, d.off) IN
    IF o.fatal THEN Fatal(run) ELSE
    LET l == IF d.small % 16 # 0
             THEN mangle_getLen(Min(16, run.maxInputSz - o.ret), d.len)
             ELSE mangle_getLen(run.maxInputSz - o.ret, d.len) IN
    IF l.fatal THEN Fatal(run) ELSE
    mangle_Inflate(run, o.ret, l.ret, printable).run

\* mangle_Shrink cutting the tail off instead of the block chosen (no
\* mangle_Move).
mangle_Shrink_NoMove(run, printable, d) ==
    IF run.size <= 2 THEN run ELSE
    LET o == mangle_getOffSet(run, d.off) IN
    IF o.fatal THEN Fatal(run) ELSE
    LET off_start == o.ret
        ll == mangle_LenLeft(run, off_start) IN
    IF ll.fatal THEN Fatal(run) ELSE
    IF ll.ret = 0 THEN run ELSE
    LET l == IF d.small % 16 # 0
             THEN mangle_getLen(Min(16, ll.ret), d.len)
             ELSE mangle_getLen(ll.ret, d.len) IN
    IF l.fatal THEN Fatal(run) ELSE
    LET len == l.ret
        off_end == off_start + len
        len_to_move == run.size - off_end
    IN  input_setSize(run, run.size - len)

\* mangle.c:698-718
mangle_Shrink(run, printable, d) ==
    IF run.size <= 2 THEN run ELSE
    LET o == mangle_getOffSet(run, d.off) IN
    IF o.fatal THEN Fatal(run) ELSE
    LET off_start == o.ret
        ll == mangle_LenLeft(run, off_start) IN
    IF ll.fatal THEN Fatal(run) ELSE
    IF ll.ret = 0 THEN run ELSE
    LET l == IF d.small % 16 # 0
             THEN mangle_getLen(Min(16, ll.ret), d.len)
             ELSE mangle_getLen(ll.ret, d.len) IN
    IF l.fatal THEN Fatal(run) ELSE
    LET len == l.ret
        off_end == off_start + len
        len_to_move == run.size - off_end
    IN  input_setSize(mangle_Move(run, off_end, off_start, len_to_move),
                      run.size - len)

\* The decimal digits of n >= 0, as ASCII codes.
RECURSIVE Digits(_)
Digits(n) == IF n < 10 THEN <<48 + n>> ELSE Digits(n \div 10) \o <<48 + (n % 10)>>

\* snprintf(buf, 20, "%-19" PRId64, num): the 19 characters before the NUL.
Fmt19(num) ==
    LET txt == IF num < 0 THEN <<45>> \o Digits(-num) ELSE Digits(num)
    IN  [k \in 1..19 |-> IF k <= Len(txt) THEN txt[k] ELSE 32]

\* mangle.c:719-727
mangle_ASCIINumOverwrite(run, printable, d) ==
    LET o == mangle_getOffSet(run, d.off) IN
    IF o.fatal THEN Fatal(run) ELSE
    LET len == util_rndGet(2, 8, d.n).ret
    IN  mangle_Overwrite(run, o.ret, Ext(Fmt19(d.num)), len, printable)

\* mangle.c:729-737
mangle_ASCIINumInsert(run, printable, d) ==
    LET o == mangle_getOffSet(run, d.off) IN
    IF o.fatal THEN Fatal(run) ELSE
    LET len == util_rndGet(2, 8, d.n).ret
    IN  mangle_Insert(run, o.ret, Ext(Fmt19(d.num)), len, printable)

\* &buf[remoteOff]
BufAt(buf, remoteOff) == Ext(SubSeq(buf, remoteOff + 1, Len(buf)))

\* mangle.c:739-751.  d.prior is the buffer input_getRandomInputAsBuf hands
\* back (empty when there is no prior input), sz its length.
mangle_SpliceOverwrite(run, printable, d) ==
    LET sz == Len(d.prior) IN
    IF sz = 0 THEN mangle_BytesOverwrite(run, printable, d) ELSE
    LET r == mangle_getLen(sz, d.roff) IN
    IF r.fatal THEN Fatal(run) ELSE
    LET remoteOff == r.ret - 1
        o == mangle_getOffSet(run, d.off) IN
    IF o.fatal THEN Fatal(run) ELSE
    LET l == mangle_getLen(Min(sz - remoteOff, run.size - o.ret), d.len) IN
    IF l.fatal THEN Fatal(run) ELSE
    mangle_Overwrite(run, o.ret, BufAt(d.prior, remoteOff), l.ret, printable)

\* mangle.c:753-765
mangle_SpliceInsert(run, printable, d) ==
    LET sz == Len(d.prior) IN
    IF sz = 0 THEN mangle_BytesInsert(run, printable, d) ELSE
    LET r == mangle_getLen(sz, d.roff) IN
    IF r.fatal THEN Fatal(run) ELSE
    LET remoteOff == r.ret - 1
        o == mangle_getOffSet(run, d.off) IN
    IF o.fatal THEN Fatal(run) ELSE
    LET l == mangle_getLen(Min(sz - remoteOff, run.size - o.ret), d.len) IN
    IF l.fatal THEN Fatal(run) ELSE
    mangle_Insert(run, o.ret, BufAt(d.prior, remoteOff), l.ret, printable)

\* mangle_Resize without the "newsz < 1" clamp of lines 795-797.
mangle_Resize_NoFloor(run, printable, d) ==
    LET oldsz == run.size
        choice == util_rndGet(0, 32, d.choice).ret
        newsz0 == IF choice = 0 THEN util_rndGet(1, run.maxInputSz, d.v).ret
                  ELSE IF choice \in 1..4 THEN oldsz + util_rndGet(0, 8, d.v).ret
                  ELSE IF choice = 5 THEN oldsz + util_rndGet(9, 128, d.v).ret
                  ELSE IF choice \in 6..9 THEN oldsz - util_rndGet(0, 8, d.v).ret
                  ELSE IF choice = 10 THEN oldsz - util_rndGet(9, 128, d.v).ret
                  ELSE oldsz
        newsz == IF newsz0 > run.maxInputSz THEN run.maxInputSz ELSE newsz0
        r1 == input_setSize(run, newsz)
    IN  IF newsz > oldsz /\ printable
        THEN MemSetRaw(r1, oldsz, 32, newsz - oldsz)
        ELSE r1

\* mangle.c:767-808
mangle_Resize(run, printable, d) ==
    LET oldsz == run.size
        choice == util_rndGet(0, 32, d.choice).ret
        v0 == util_rndGet(1, run.maxInputSz, d.v)
        newsz0 == IF choice = 0 THEN v0.ret
                  ELSE IF choice \in 1..4 THEN oldsz + util_rndGet(0, 8, d.v).ret
                  ELSE IF choice = 5 THEN oldsz + util_rndGet(9, 128, d.v).ret
                  ELSE IF choice \in 6..9 THEN oldsz - util_rndGet(0, 8, d.v).ret
                  ELSE IF choice = 10 THEN oldsz - util_rndGet(9, 128, d.v).ret
                  ELSE oldsz
        newsz1 == IF newsz0 < 1 THEN 1 ELSE newsz0
        newsz == IF newsz1 > run.maxInputSz THEN run.maxInputSz ELSE newsz1
        r1 == input_setSize(run, newsz)
    IN  IF choice = 0 /\ v0.fatal THEN Fatal(run)
        ELSE IF newsz > oldsz /\ printable
        THEN MemSetRaw(r1, oldsz, 32, newsz - oldsz)
        ELSE r1

\* mangle.c:851-866
mangle_changesCnt(mutationsPerRun, slow_factor, rnd) ==
    IF slow_factor \in 0..2 THEN util_rndGet(1, mutationsPerRun, rnd)
    ELSE IF slow_factor \in 3..4
    THEN [fatal |-> FALSE, ret |-> Max(mutationsPerRun, 5)]
    ELSE IF slow_factor \in 5..9
    THEN [fatal |-> FALSE, ret |-> Max(mutationsPerRun, 7)]
    ELSE [fatal |-> FALSE, ret |-> Max(mutationsPerRun, 10)]

\* ------------------------------------------------------------ environment

\* Size of the one larger input explored, wide enough for an 8-byte AddSub.
WideSz == 9

\* mutate.dictionary when it is not empty: a one-byte token and one longer
\* than any small buffer of the model.
Dictionary ==
    << [val |-> <<127>>, len |-> 1],
       [val |-> <<0, 255, 65, 128>>, len |-> 4] >>

\* For each max, raw draws that make mangle_getLen return every length of
\* [1, max].
RawCover ==
    [m \in 0..Max(MaxInputSz, WideSz) |->
        IF m = 0 THEN {0}
        ELSE { CHOOSE r \in 0..(m * m) : mangle_getLen(m, r).ret = k : k \in 1..m }]

\* Raw draws for the mangle_getLen calls whose max is at most n: every
\* length for every such max on the small inputs, every length for max = n
\* on the wide one.
RawLens(n) ==
    IF n <= MaxInputSz THEN UNION { RawCover[m] : m \in 0..n } ELSE RawCover[n]

\* Prior inputs input_getRandomInputAsBuf can hand back; <<>> is "none".
PriorInputs == { <<>>, <<200>>, <<48, 49>> }

\* Values another thread stores in the comparison-feedback map.
CmpfCnts == {0, 1, CmpfArrSz + 1}
CmpfEntries ==
    { [len |-> 0, val |-> [k \in 1..CmpfValSz |-> 7]],
      [len |-> 1, val |-> [k \in 1..CmpfValSz |-> 200]],
      [len |-> CmpfValSz + MaxInputSz, val |-> [k \in 1..CmpfValSz |-> 66]] }

\* Raw draws behind the AddSub delta: -1 and +1 at width 1, +1 at widths 2,
\* 4 and 8.
RawDelta == {15, 17, 4097, 1048577, 268435457}

SlowFactors == {0, 2}

\* One slow_factor in each of the three other branches of the switch at
\* line 853.
ShakeFactors == {3, 5, 10}

\* util_timeNowMillis() - lastCovUpdate at the threshold of line 868 and
\* just past it.
Elapsed == {1000, 1001}

\* ------------------------------------------------------------------ state

VARIABLES
    data,                \* run->dynfile->data
    size,                \* run->dynfile->size
    maxInputSz,          \* run->global->mutate.maxInputSz
    only_printable,      \* run->global->cfg.only_printable
    dictionaryCnt,       \* run->global->mutate.dictionaryCnt
    cmpFeedback,         \* run->global->feedback.cmpFeedback
    runMutationsPerRun,  \* run->mutationsPerRun
    mutationsPerRun,     \* run->global->mutate.mutationsPerRun
    cmpfCnt,             \* cmpFeedbackMap->cnt, written by another thread
    cmpfValArr,          \* cmpFeedbackMap->valArr, written by another thread
    pc,                  \* where mangle_mangleContent is
    changesCnt,          \* its local changesCnt
    x,                   \* its loop counter
    fbChoice,            \* mangle_FeedbackDict's local choice
    oob,                 \* an access outside data[0, size) has happened
    fatal,               \* a fatal log branch was taken: the process is gone
    wmb,                 \* the write barrier of line 886 was issued
    lastOp,              \* the mangle function invoked last
    entryData,           \* data when mangle_mangleContent was entered
    entrySize,           \* size when mangle_mangleContent was entered
    lenMax,              \* mangle_getLen's argument max
    lenRnd,              \* the raw draw its util_rndGet call gets
    lenPc,               \* where the call of mangle_getLen is
    lenRes,              \* what the call did
    slow_factor,         \* mangle_mangleContent's argument slow_factor
    elapsed,             \* util_timeNowMillis() - lastCovUpdate at line 868
    call,                \* the arguments of a function called on its own
    rndCall              \* a call of util_rndGet: its arguments and locals

vars == <<data, size, maxInputSz, only_printable, dictionaryCnt, cmpFeedback,
          runMutationsPerRun, mutationsPerRun, cmpfCnt, cmpfValArr, pc,
          changesCnt, x, fbChoice, oob, fatal, wmb, lastOp, entryData, entrySize,
          lenMax, lenRnd, lenPc, lenRes, slow_factor, elapsed, call, rndCall>>

mutator == <<data, size, maxInputSz, only_printable, dictionaryCnt, cmpFeedback,
             runMutationsPerRun, mutationsPerRun, cmpfCnt, cmpfValArr, pc,
             changesCnt, x, fbChoice, oob, fatal, wmb, lastOp, entryData,
             entrySize, slow_factor, elapsed>>

sampler == <<lenMax, lenRnd, lenPc, lenRes>>

direct == <<call, rndCall>>

config == <<maxInputSz, only_printable, dictionaryCnt, cmpFeedback,
            runMutationsPerRun, mutationsPerRun, entryData, entrySize,
            slow_factor, elapsed>>

cmpf == <<cmpfCnt, cmpfValArr>>

\* The run_t the mangle functions are handed.
Run ==
    [data |-> data, size |-> size, maxInputSz |-> maxInputSz,
     dictionaryCnt |-> dictionaryCnt, dictionary |-> Dictionary,
     cmpFeedback |-> cmpFeedback, oob |-> oob, fatal |-> fatal]

\* The raw draws each operator is run with (one field per call of the random
\* number generator, in the ranges the current buffer makes distinguishable).
Offs == RawLens(size)
D_off == [off : Offs]
D_off_off2_len == [off : Offs, off2 : Offs, len : Offs]
D_bytes == [off : Offs, b0 : {0, 94}, b1 : {255}, n : {0, 1}]
D_repeat == [off : Offs, off2 : {0}, len : Offs, b0 : {94}, b1 : {0}, n : {1}]
D_bit == [off : Offs, bit : {0, 7}]
D_magic == [off : Offs, choice : {19, 55, 181}]
D_dict == [off : Offs, choice : {0, 1}]
D_feedback == [off : Offs, junk : {255}]
D_memset == [off : Offs, len : Offs, val : {0, 255}]
D_random == [off : Offs, len : Offs, buf : {<<0, 255>>, <<94>>}]
D_addsub == [off : Offs, w : 0..3, delta : RawDelta, endian : {0, 1}]
D_expand == [off : Offs, small : {0, 1}, len : RawLens(maxInputSz)]
D_shrink == [off : Offs, small : {0, 1}, len : Offs]
D_ascii == [off : Offs, n : {0, 6}, num : {0, -7}]
D_splice ==
    [prior : PriorInputs \ {<<>>}, roff : RawLens(2), off : Offs, len : RawLens(2)]
    \cup [prior : {<<>>}, off : Offs, b0 : {0, 94}, b1 : {255}, n : {0, 1}]
D_presplice ==
    [prior : {<<200>>}, roff : {0}, off : Offs, len : {0}]
    \cup [prior : {<<>>}, off : Offs, b0 : {94}, b1 : {255}, n : {1}]
D_resize == [choice : {0, 1, 5, 6, 10, 11}, v : {0, 1, 2, 8}]

\* The backing store on entry: an input of n bytes (a, b, a, b, ...) and
\* stale bytes after it.
EntryData(cap, n, a, b) ==
    [i \in 0..(cap - 1) |-> IF i >= n THEN 255 ELSE IF i % 2 = 0 THEN a ELSE b]

\* The inputs explored: printable ones when only_printable is set.
EntryBytes(printable) ==
    IF printable THEN {<<32, 126>>, <<126, 65>>} ELSE {<<0, 255>>, <<128, 65>>}

NoFeedbackMap ==
    /\ cmpFeedback = FALSE
    /\ cmpfCnt = 0
    /\ cmpfValArr = [i \in 0..(CmpfArrSz - 1) |->
                        [len |-> 0, val |-> [k \in 1..CmpfValSz |-> 7]]]

NoResult == [fatal |-> FALSE, trap |-> FALSE, ret |-> <<>>]

\* No stand-alone call of mangle_getLen is under way.
NoSampler ==
    /\ lenMax = <<>>
    /\ lenRnd = <<>>
    /\ lenPc = "off"
    /\ lenRes = NoResult

\* No function is called on its own.
NoCall == [off |-> 0, off2 |-> 0, len |-> 0, small |-> 0, src |-> <<>>]

NoRndCall ==
    [pc |-> "off", fd |-> -1, min |-> <<>>, max |-> <<>>, rnd |-> <<>>,
     warned |-> FALSE, fatal |-> FALSE, trap |-> FALSE, ret |-> <<>>]

NoDirect == call = NoCall /\ rndCall = NoRndCall

InitControl ==
    /\ pc = "entry"
    /\ changesCnt = 0
    /\ x = 0
    /\ fbChoice = 0
    /\ oob = FALSE
    /\ fatal = FALSE
    /\ wmb = FALSE
    /\ lastOp = "none"
    /\ entryData = data
    /\ entrySize = size
    /\ NoSampler
    /\ NoDirect

\* Every small input, every combination of the two mutation counts that
\* runs at most one operator.
InitBreadth ==
    /\ maxInputSz \in {1, MaxInputSz}
    /\ size \in 0..maxInputSz
    /\ only_printable \in BOOLEAN
    /\ \E p \in EntryBytes(only_printable) :
         data = EntryData(maxInputSz, size, p[1], p[2])
    /\ dictionaryCnt \in {0, Len(Dictionary)}
    /\ NoFeedbackMap
    /\ runMutationsPerRun \in {0, 1}
    /\ mutationsPerRun \in {0, 1}
    /\ slow_factor = 0
    /\ elapsed \in Elapsed

\* Two operators in a row.
InitDepth ==
    /\ maxInputSz = MaxInputSz - 1
    /\ size = 1
    /\ only_printable \in BOOLEAN
    /\ data = EntryData(maxInputSz, size, 126, 65)
    /\ dictionaryCnt = 0
    /\ NoFeedbackMap
    /\ runMutationsPerRun = 1
    /\ mutationsPerRun = 2
    /\ slow_factor = 2
    /\ elapsed = 1001

\* Comparison feedback switched on, its map in any of the states another
\* thread can leave it in.
InitFeedback ==
    /\ maxInputSz = MaxInputSz
    /\ size \in {1, MaxInputSz}
    /\ only_printable \in BOOLEAN
    /\ data = EntryData(maxInputSz, size, 126, 65)
    /\ dictionaryCnt = 0
    /\ cmpFeedback = TRUE
    /\ cmpfCnt \in CmpfCnts
    /\ \E e \in CmpfEntries : cmpfValArr = [i \in 0..(CmpfArrSz - 1) |-> e]
    /\ runMutationsPerRun = 1
    /\ mutationsPerRun = 1
    /\ slow_factor \in SlowFactors
    /\ elapsed = 1001

\* One input long enough for every AddSub width.
InitWide ==
    /\ maxInputSz = WideSz
    /\ size = WideSz - 1
    /\ only_printable \in BOOLEAN
    /\ \E p \in EntryBytes(only_printable) :
         data = EntryData(maxInputSz, size, p[1], p[2])
    /\ dictionaryCnt = 0
    /\ NoFeedbackMap
    /\ runMutationsPerRun = 1
    /\ mutationsPerRun = 1
    /\ slow_factor = 1
    /\ elapsed = 1001

Init ==
    /\ InitBreadth \/ InitDepth \/ InitFeedback \/ InitWide
    /\ InitControl

\* The buffer and the flags become those of r.
Apply(r) ==
    /\ data' = r.data
    /\ size' = r.size
    /\ oob' = r.oob
    /\ fatal' = r.fatal

\* Entry with the early return taken on the global count instead of
\* run->mutationsPerRun.
Entry_GlobalCount ==
    /\ pc = "entry" /\ ~fatal
    /\ IF mutationsPerRun = 0
       THEN /\ pc' = "done"
            /\ UNCHANGED <<data, size, oob, fatal, changesCnt, lastOp>>
       ELSE \E d \in D_resize, rnd \in {0, 1} :
              LET r1 == IF size = 0 THEN mangle_Resize(Run, only_printable, d)
                        ELSE Run
                  cc == mangle_changesCnt(mutationsPerRun, slow_factor, rnd)
              IN  /\ Apply(IF ~r1.fatal /\ cc.fatal THEN Fatal(r1) ELSE r1)
                  /\ lastOp' = IF size = 0 THEN "Resize" ELSE lastOp
                  /\ changesCnt' = IF r1.fatal \/ cc.fatal THEN 0 ELSE cc.ret
                  /\ pc' = "presplice"
    /\ UNCHANGED <<config, sampler, direct, cmpf, x, fbChoice, wmb>>

\* mangle.c:844-866: the early return, the Resize of an empty input and the
\* choice of changesCnt.
Entry ==
    /\ pc = "entry" /\ ~fatal
    /\ IF runMutationsPerRun = 0
       THEN /\ pc' = "done"
            /\ UNCHANGED <<data, size, oob, fatal, changesCnt, lastOp>>
       ELSE \E d \in D_resize, rnd \in {0, 1} :
              LET r1 == IF size = 0 THEN mangle_Resize(Run, only_printable, d)
                        ELSE Run
                  cc == mangle_changesCnt(mutationsPerRun, slow_factor, rnd)
              IN  /\ Apply(IF ~r1.fatal /\ cc.fatal THEN Fatal(r1) ELSE r1)
                  /\ lastOp' = IF size = 0 THEN "Resize" ELSE lastOp
                  /\ changesCnt' = IF r1.fatal \/ cc.fatal THEN 0 ELSE cc.ret
                  /\ pc' = "presplice"
    /\ UNCHANGED <<config, sampler, direct, cmpf, x, fbChoice, wmb>>

\* PreSplice with the threshold of line 868 tested as >= 1000.
PreSplice_AtThreshold ==
    /\ pc = "presplice" /\ ~fatal
    /\ \E which \in 0..2 :
         IF elapsed >= 1000 /\ which = 0
         THEN \E d \in D_presplice :
                /\ Apply(mangle_SpliceOverwrite(Run, only_printable, d))
                /\ lastOp' = "SpliceOverwrite"
         ELSE IF elapsed >= 1000 /\ which = 1
         THEN \E d \in D_presplice :
                /\ Apply(mangle_SpliceInsert(Run, only_printable, d))
                /\ lastOp' = "SpliceInsert"
         ELSE UNCHANGED <<data, size, oob, fatal, lastOp>>
    /\ pc' = "loop"
    /\ UNCHANGED <<config, sampler, direct, cmpf, changesCnt, x, fbChoice, wmb>>

\* mangle.c:868-879
PreSplice ==
    /\ pc = "presplice" /\ ~fatal
    /\ \E which \in 0..2 :
         IF elapsed > 1000 /\ which = 0
         THEN \E d \in D_presplice :
                /\ Apply(mangle_SpliceOverwrite(Run, only_printable, d))
                /\ lastOp' = "SpliceOverwrite"
         ELSE IF elapsed > 1000 /\ which = 1
         THEN \E d \in D_presplice :
                /\ Apply(mangle_SpliceInsert(Run, only_printable, d))
                /\ lastOp' = "SpliceInsert"
         ELSE UNCHANGED <<data, size, oob, fatal, lastOp>>
    /\ pc' = "loop"
    /\ UNCHANGED <<config, sampler, direct, cmpf, changesCnt, x, fbChoice, wmb>>

\* mangle.c:881-884 with mangleFuncs[choice] = F, drawing from D.
LoopOp(name, F(_, _, _), D) ==
    /\ pc = "loop" /\ ~fatal /\ x < changesCnt
    /\ \E d \in D :
         /\ Apply(F(Run, only_printable, d))
         /\ lastOp' = name
    /\ x' = x + 1
    /\ UNCHANGED <<config, sampler, direct, cmpf, pc, changesCnt, fbChoice, wmb>>

DoShrink == LoopOp("Shrink", mangle_Shrink, D_shrink)
DoExpand == LoopOp("Expand", mangle_Expand, D_expand)
DoBit == LoopOp("Bit", mangle_Bit, D_bit)
DoIncByte == LoopOp("IncByte", mangle_IncByte, D_off)
DoDecByte == LoopOp("DecByte", mangle_DecByte, D_off)
DoNegByte == LoopOp("NegByte", mangle_NegByte, D_off)
DoAddSub == LoopOp("AddSub", mangle_AddSub, D_addsub)
DoMemSet == LoopOp("MemSet", mangle_MemSet, D_memset)
DoMemCopyOverwrite == LoopOp("MemCopyOverwrite", mangle_MemCopyOverwrite, D_off_off2_len)
DoMemCopyInsert == LoopOp("MemCopyInsert", mangle_MemCopyInsert, D_off_off2_len)
DoBytesOverwrite == LoopOp("BytesOverwrite", mangle_BytesOverwrite, D_bytes)
DoBytesInsert == LoopOp("BytesInsert", mangle_BytesInsert, D_bytes)
DoASCIINumOverwrite == LoopOp("ASCIINumOverwrite", mangle_ASCIINumOverwrite, D_ascii)
DoASCIINumInsert == LoopOp("ASCIINumInsert", mangle_ASCIINumInsert, D_ascii)
DoByteRepeatOverwrite == LoopOp("ByteRepeatOverwrite", mangle_ByteRepeatOverwrite, D_repeat)
DoByteRepeatInsert == LoopOp("ByteRepeatInsert", mangle_ByteRepeatInsert, D_repeat)
DoMagicOverwrite == LoopOp("MagicOverwrite", mangle_MagicOverwrite, D_magic)
DoMagicInsert == LoopOp("MagicInsert", mangle_MagicInsert, D_magic)
DoDictionaryOverwrite ==
    LoopOp("DictionaryOverwrite", mangle_DictionaryOverwrite,
           IF dictionaryCnt = 0 THEN D_bytes ELSE D_dict)
DoDictionaryInsert ==
    LoopOp("DictionaryInsert", mangle_DictionaryInsert,
           IF dictionaryCnt = 0 THEN D_bytes ELSE D_dict)
DoRandomOverwrite == LoopOp("RandomOverwrite", mangle_RandomOverwrite, D_random)
DoRandomInsert == LoopOp("RandomInsert", mangle_RandomInsert, D_random)
DoSpliceOverwrite ==
    LoopOp("SpliceOverwrite", mangle_SpliceOverwrite, D_splice)
DoSpliceInsert ==
    LoopOp("SpliceInsert", mangle_SpliceInsert, D_splice)

\* mangle_ConstFeedbackInsert / Overwrite up to the first atomic read
\* (mangle.c:499-511): with no entry chosen the Bytes variant runs at once.
FeedbackStart(name, Fallback(_, _, _), next) ==
    /\ pc = "loop" /\ ~fatal /\ x < changesCnt
    /\ \E rnd \in 0..CmpfArrSz :
         LET fd == mangle_FeedbackDict(Run, cmpfCnt, rnd)
         IN  IF fd.null
             THEN /\ \E d \in D_bytes : Apply(Fallback(Run, only_printable, d))
                  /\ lastOp' = name
                  /\ x' = x + 1
                  /\ UNCHANGED <<pc, fbChoice>>
             ELSE /\ fbChoice' = fd.choice
                  /\ pc' = next
                  /\ UNCHANGED <<data, size, oob, fatal, lastOp, x>>
    /\ UNCHANGED <<config, sampler, direct, cmpf, changesCnt, wmb>>

\* valArr[choice] as the second atomic read finds it; past the array the
\* read returns whatever lies there.
FeedbackEntry ==
    IF fbChoice \in DOMAIN cmpfValArr THEN cmpfValArr[fbChoice]
    ELSE [len |-> CmpfValSz + MaxInputSz, val |-> [k \in 1..CmpfValSz |-> 255]]

\* The rest of the operator, from the read of valArr[choice].len on.
FeedbackFinish(name, F(_, _, _, _), at) ==
    /\ pc = at /\ ~fatal
    /\ \E d \in (IF FeedbackEntry.len = 0 THEN D_bytes ELSE D_feedback) :
         Apply(F(Run, only_printable, FeedbackEntry, d))
    /\ lastOp' = name
    /\ x' = x + 1
    /\ pc' = "loop"
    /\ UNCHANGED <<config, sampler, direct, cmpf, changesCnt, fbChoice, wmb>>

DoConstFeedbackOverwrite ==
    FeedbackStart("ConstFeedbackOverwrite", mangle_BytesOverwrite, "fb_overwrite")
DoConstFeedbackInsert ==
    FeedbackStart("ConstFeedbackInsert", mangle_BytesInsert, "fb_insert")
EndConstFeedbackOverwrite ==
    FeedbackFinish("ConstFeedbackOverwrite", mangle_ConstFeedbackOverwrite, "fb_overwrite")
EndConstFeedbackInsert ==
    FeedbackFinish("ConstFeedbackInsert", mangle_ConstFeedbackInsert, "fb_insert")

\* Another thread (the instrumented target) stores into the feedback map.
CmpfStoreCnt ==
    /\ cmpFeedback /\ ~fatal /\ pc \in {"loop", "fb_overwrite", "fb_insert"}
    /\ \E c \in CmpfCnts : cmpfCnt' = c
    /\ UNCHANGED <<data, size, config, sampler, direct, cmpfValArr, pc, changesCnt, x, fbChoice,
                   oob, fatal, wmb, lastOp>>

CmpfStoreEntry ==
    /\ cmpFeedback /\ ~fatal /\ pc \in {"loop", "fb_overwrite", "fb_insert"}
    /\ \E i \in DOMAIN cmpfValArr, e \in CmpfEntries :
         cmpfValArr' = [cmpfValArr EXCEPT ![i] = e]
    /\ UNCHANGED <<data, size, config, sampler, direct, cmpfCnt, pc, changesCnt, x, fbChoice,
                   oob, fatal, wmb, lastOp>>

\* mangle.c:881 (the loop ends) and 886.
Barrier ==
    /\ pc = "loop" /\ ~fatal /\ x >= changesCnt
    /\ wmb' = TRUE
    /\ pc' = "done"
    /\ UNCHANGED <<data, size, config, sampler, direct, cmpf, changesCnt, x, fbChoice, oob, fatal,
                   lastOp>>

Next ==
    \/ Entry
    \/ PreSplice
    \/ DoShrink
    \/ DoExpand
    \/ DoBit
    \/ DoIncByte
    \/ DoDecByte
    \/ DoNegByte
    \/ DoAddSub
    \/ DoMemSet
    \/ DoMemCopyOverwrite
    \/ DoMemCopyInsert
    \/ DoBytesOverwrite
    \/ DoBytesInsert
    \/ DoASCIINumOverwrite
    \/ DoASCIINumInsert
    \/ DoByteRepeatOverwrite
    \/ DoByteRepeatInsert
    \/ DoMagicOverwrite
    \/ DoMagicInsert
    \/ DoDictionaryOverwrite
    \/ DoDictionaryInsert
    \/ DoConstFeedbackOverwrite
    \/ DoConstFeedbackInsert
    \/ EndConstFeedbackOverwrite
    \/ EndConstFeedbackInsert
    \/ DoRandomOverwrite
    \/ DoRandomInsert
    \/ DoSpliceOverwrite
    \/ DoSpliceInsert
    \/ Barrier

Spec == Init /\ [][Next]_vars

\* The two comparison-feedback operators run while another thread stores
\* into the map.
InitCmpf == InitFeedback /\ InitControl

NextCmpf ==
    \/ Entry
    \/ PreSplice
    \/ DoConstFeedbackOverwrite
    \/ DoConstFeedbackInsert
    \/ EndConstFeedbackOverwrite
    \/ EndConstFeedbackInsert
    \/ CmpfStoreCnt
    \/ CmpfStoreEntry
    \/ Barrier

SpecCmpf == InitCmpf /\ [][NextCmpf]_vars

\* ------------------------------------------------------- a slow input
\* mangle_mangleContent on a one-byte input with slow_factor in each branch
\* of the switch at line 853: the global count is 0 (with a per-run count
\* of 1) or lies above the first floor and below the other two.
InitSlow ==
    /\ maxInputSz = 1
    /\ size = 1
    /\ only_printable = FALSE
    /\ data = EntryData(maxInputSz, size, 65, 65)
    /\ dictionaryCnt = 0
    /\ cmpFeedback = TRUE
    /\ cmpfCnt = 1
    /\ cmpfValArr = [i \in 0..(CmpfArrSz - 1) |->
                        [len |-> 1, val |-> [k \in 1..CmpfValSz |-> 200]]]
    /\ runMutationsPerRun = 1
    /\ mutationsPerRun \in {0, 6}
    /\ slow_factor \in (IF mutationsPerRun = 0 THEN SlowFactors
                        ELSE SlowFactors \cup ShakeFactors)
    /\ elapsed = 1000
    /\ InitControl

SpecSlow == InitSlow /\ [][Next]_vars

\* ------------------------------------------------- mangle_getLen alone
\* A call of mangle_getLen(max) on its own, max anywhere up to the cap on
\* input sizes: the draw of util_rndGet is read, then the arithmetic of
\* lines 64-70 runs on it.

\* The largest max with max^3 < 2^64, the first max past it, the max whose
\* cube is a multiple of 2^64, and small and boundary values.
LenMaxes ==
    {0, 1, 2, 3, 7, 10, 200, HF_MAX_LEN_BLOCK, 8192, 1048576, 2642245, 2642246,
     4194304, 4194305, HF_INPUT_MAX_SIZE, HF_INPUT_MAX_SIZE + 1}

\* Raw draws: those giving the smallest, the middle and the largest rnd of
\* [1, max^2 - 1], the largest raw value, and 6981463724876.
RawsFor(max) ==
    LET max2 == Mul64(max, max)
    IN  {<<>>, ToU64(1), Sub64(max2, ToU64(2)), DivMod64(max2, ToU64(2)).q,
         AllOnes64, <<4940, 16041, 9623, 1>>}

InitLen ==
    /\ maxInputSz = 1
    /\ size = 0
    /\ only_printable = FALSE
    /\ data = EntryData(1, 0, 0, 0)
    /\ dictionaryCnt = 0
    /\ NoFeedbackMap
    /\ runMutationsPerRun = 0
    /\ mutationsPerRun = 0
    /\ slow_factor = 0
    /\ elapsed = 0
    /\ NoDirect
    /\ pc = "off"
    /\ changesCnt = 0
    /\ x = 0
    /\ fbChoice = 0
    /\ oob = FALSE
    /\ fatal = FALSE
    /\ wmb = FALSE
    /\ lastOp = "none"
    /\ entryData = data
    /\ entrySize = size
    /\ \E m \in LenMaxes : lenMax = ToU64(m)
    /\ lenRnd = <<>>
    /\ lenPc = "idle"
    /\ lenRes = NoResult

\* util.c:50-62: the raw value util_rndGet will reduce.
LenDraw ==
    /\ lenPc = "idle"
    /\ lenRnd' \in RawsFor(lenMax)
    /\ lenPc' = "drawn"
    /\ UNCHANGED <<mutator, direct, lenMax, lenRes>>

\* mangle.c:53-80
LenCall ==
    /\ lenPc = "drawn"
    /\ \E dz \in DivZeroOutcomes : lenRes' = mangle_getLen64(lenMax, lenRnd, dz)
    /\ lenPc' = "done"
    /\ UNCHANGED <<mutator, direct, lenMax, lenRnd>>

NextLen == LenDraw \/ LenCall

SpecLen == InitLen /\ [][NextLen]_vars

\* Where no product reaches 2^31, mangle_getLen and util_rndGet are
\* mangle_getLen64 and util_rndGet64.
SamplerAgree ==
    lenPc = "done" /\ FitsInt(lenMax) /\ FitsInt(lenRnd) /\ FromU64(lenMax) <= 200
    => LET m == FromU64(lenMax)
           n == mangle_getLen(m, FromU64(lenRnd))
           r == util_rndGet(1, m * m + 1, FromU64(lenRnd))
           r64 == util_rndGet64(ToU64(1), ToU64(m * m + 1), lenRnd)
       IN  /\ n.fatal = lenRes.fatal
           /\ ~n.fatal => ToU64(n.ret) = lenRes.ret
           /\ ~lenRes.trap
           /\ r.fatal = r64.fatal /\ ToU64(r.ret) = r64.ret

\* --------------------------------------------------- util_rndGet alone
\* One call of util_rndGet(min, max) (util.c:42-69), statement by statement.

\* a ^ b on values below 2^14.
RECURSIVE XorNat(_, _)
XorNat(a, b) ==
    IF a = 0 THEN b
    ELSE IF b = 0 THEN a
    ELSE ((a + b) % 2) + 2 * XorNat(a \div 2, b \div 2)

\* a ^ b and a << 24 on uint64_t.
Xor64(a, b) == Norm([k \in 1..Limbs |-> XorNat(Limb(a, k), Limb(b, k))])
Shl24(a) == Mul64(a, ToU64(2 ^ 24))

\* The (min, max) pairs called with: one-value ranges, small ranges, the
\* ranges that end at 2^64 - 1 (the full range among them), and min > max.
RndRanges ==
    { <<ToU64(0), ToU64(0)>>, <<ToU64(0), ToU64(1)>>, <<ToU64(1), ToU64(10)>>,
      <<ToU64(32), ToU64(126)>>, <<ToU64(0), AllOnes64>>, <<ToU64(1), AllOnes64>>,
      <<AllOnes64, AllOnes64>>, <<Sub64(AllOnes64, ToU64(1)), AllOnes64>>,
      <<ToU64(1), ToU64(0)>> }

\* What is in rnd after the read: the eight bytes of /dev/urandom, or what a
\* short or failed read leaves in the uninitialised local.
RndEntropy == {ToU64(0), ToU64(12345), Sub64(AllOnes64, ToU64(7)), AllOnes64}

\* Values of tv.tv_usec.
Usecs == {0, 999999}

\* What open (util.c:45) and read (util.c:52) return.
OpenResults == {-1, 3}
ReadResults == {-1, 3, 8}

InitRnd ==
    /\ maxInputSz = 1
    /\ size = 0
    /\ only_printable = FALSE
    /\ data = EntryData(1, 0, 0, 0)
    /\ dictionaryCnt = 0
    /\ NoFeedbackMap
    /\ runMutationsPerRun = 0
    /\ mutationsPerRun = 0
    /\ slow_factor = 0
    /\ elapsed = 0
    /\ pc = "off"
    /\ changesCnt = 0
    /\ x = 0
    /\ fbChoice = 0
    /\ oob = FALSE
    /\ fatal = FALSE
    /\ wmb = FALSE
    /\ lastOp = "none"
    /\ entryData = data
    /\ entrySize = size
    /\ NoSampler
    /\ call = NoCall
    /\ \E fd \in OpenResults, r \in RndRanges :
         rndCall = [NoRndCall EXCEPT !.pc = "open", !.fd = fd,
                                     !.min = r[1], !.max = r[2]]

\* util.c:44-49: util_urandomFD is opened on the first call; the call is
\* fatal if that fails.
RndOpen ==
    /\ rndCall.pc = "open"
    /\ \E fd \in (IF rndCall.fd = -1 THEN OpenResults ELSE {rndCall.fd}) :
         rndCall' = [rndCall EXCEPT !.fd = fd, !.fatal = (fd = -1),
                                    !.pc = IF fd = -1 THEN "done" ELSE "read"]
    /\ UNCHANGED <<mutator, sampler, call>>

\* util.c:51-54: a read of other than eight bytes is logged as a warning and
\* the call goes on.
RndRead ==
    /\ rndCall.pc = "read"
    /\ \E n \in ReadResults, e \in RndEntropy :
         rndCall' = [rndCall EXCEPT !.rnd = e, !.warned = (n # 8), !.pc = "mix"]
    /\ UNCHANGED <<mutator, sampler, call>>

\* util.c:56-62
RndMix ==
    /\ rndCall.pc = "mix"
    /\ \E t1 \in Usecs, t2 \in Usecs, t3 \in Usecs :
         rndCall' =
            [rndCall EXCEPT
               !.rnd = Xor64(Xor64(Xor64(@, ToU64(t1)), Shl24(ToU64(t2))),
                             Shl24(Shl24(ToU64(t3)))),
               !.pc = "reduce"]
    /\ UNCHANGED <<mutator, sampler, call>>

\* util.c:64-68.  Where max - min + 1 is 0 the remainder is undefined: dz is
\* what the build does there (the process is killed, or the division
\* leaves some quotient q and the remainder is rnd - q * 0).
RndReduce ==
    /\ rndCall.pc = "reduce"
    /\ \E dz \in DivZeroOutcomes :
         LET r == util_rndGet64(rndCall.min, rndCall.max, rndCall.rnd)
         IN  rndCall' =
                [rndCall EXCEPT
                   !.fatal = r.fatal,
                   !.trap = r.ub /\ dz = "trap",
                   !.ret = IF r.ub /\ dz # "trap" THEN Add64(rndCall.rnd, rndCall.min)
                           ELSE r.ret,
                   !.pc = "done"]
    /\ UNCHANGED <<mutator, sampler, call>>

NextRnd == RndOpen \/ RndRead \/ RndMix \/ RndReduce

SpecRnd == InitRnd /\ [][NextRnd]_vars

\* ------------------------------------------- one function on its own
\* One call of a primitive (mangle_Overwrite, mangle_Insert) or of one
\* operator, on a buffer mangle_mangleContent can be handed; call keeps the
\* arguments and raw draws, entryData and entrySize the buffer before.

\* Bytes a caller passes as src: none of them lies in the buffer.
DirectSrcs == {<<7>>, <<200, 33>>, <<127, 7, 200, 94>>}

\* Offsets on both sides of size.
DirectOffs == 0..(size + 2)

InitDirect ==
    /\ maxInputSz = MaxInputSz
    /\ size \in 0..maxInputSz
    /\ only_printable \in BOOLEAN
    /\ \/ \E p \in EntryBytes(only_printable) :
            data = EntryData(maxInputSz, size, p[1], p[2])
       \/ /\ only_printable /\ size > 0
          /\ \E b \in 32..126 : data = EntryData(maxInputSz, size, b, 32)
    /\ dictionaryCnt = 0
    /\ NoFeedbackMap
    /\ runMutationsPerRun = 1
    /\ mutationsPerRun = 1
    /\ slow_factor = 0
    /\ elapsed = 0
    /\ pc = "call"
    /\ changesCnt = 0
    /\ x = 0
    /\ fbChoice = 0
    /\ oob = FALSE
    /\ fatal = FALSE
    /\ wmb = FALSE
    /\ lastOp = "none"
    /\ entryData = data
    /\ entrySize = size
    /\ NoSampler
    /\ NoDirect

\* What every direct call leaves alone.
Called(name) ==
    /\ lastOp' = name
    /\ pc' = "done"
    /\ UNCHANGED <<config, sampler, cmpf, changesCnt, x, fbChoice, wmb, rndCall>>

\* mangle_Overwrite(run, off, src, len, printable) for any off.
CallOverwrite ==
    /\ pc = "call"
    /\ \E off \in DirectOffs, src \in DirectSrcs :
         \E len \in 0..Len(src) :
           /\ Apply(mangle_Overwrite(Run, off, Ext(src), len, only_printable))
           /\ call' = [NoCall EXCEPT !.off = off, !.len = len, !.src = src]
    /\ Called("Overwrite")

\* mangle_Insert(run, off, src, len, printable) for off < size.
CallInsert ==
    /\ pc = "call"
    /\ \E off \in 0..(size - 1), src \in DirectSrcs :
         \E len \in 0..Len(src) :
           /\ Apply(mangle_Insert(Run, off, Ext(src), len, only_printable))
           /\ call' = [NoCall EXCEPT !.off = off, !.len = len, !.src = src]
    /\ Called("Insert")

CallMemCopyInsert ==
    /\ pc = "call" /\ size > 0
    /\ \E d \in D_off_off2_len :
         /\ Apply(mangle_MemCopyInsert(Run, only_printable, d))
         /\ call' = [NoCall EXCEPT !.off = d.off, !.off2 = d.off2, !.len = d.len]
    /\ Called("MemCopyInsert")

CallShrink ==
    /\ pc = "call" /\ size > 0
    /\ \E d \in D_shrink :
         /\ Apply(mangle_Shrink(Run, only_printable, d))
         /\ call' = [NoCall EXCEPT !.off = d.off, !.small = d.small, !.len = d.len]
    /\ Called("Shrink")

CallIncByte ==
    /\ pc = "call" /\ size > 0
    /\ \E d \in D_off :
         /\ Apply(mangle_IncByte(Run, only_printable, d))
         /\ call' = [NoCall EXCEPT !.off = d.off]
    /\ Called("IncByte")

CallDecByte ==
    /\ pc = "call" /\ size > 0
    /\ \E d \in D_off :
         /\ Apply(mangle_DecByte(Run, only_printable, d))
         /\ call' = [NoCall EXCEPT !.off = d.off]
    /\ Called("DecByte")

CallNegByte ==
    /\ pc = "call" /\ size > 0
    /\ \E d \in D_off :
         /\ Apply(mangle_NegByte(Run, only_printable, d))
         /\ call' = [NoCall EXCEPT !.off = d.off]
    /\ Called("NegByte")

NextDirect ==
    \/ CallOverwrite
    \/ CallInsert
    \/ CallMemCopyInsert
    \/ CallShrink
    \/ CallIncByte
    \/ CallDecByte
    \/ CallNegByte

SpecDirect == InitDirect /\ [][NextDirect]_vars


\* ------------------------------------------------------------- properties

EntryPrintable == \A i \in 0..(entrySize - 1) : entryData[i] \in 32..126
InsertOps ==
    {"MemCopyInsert", "BytesInsert", "ASCIINumInsert", "ByteRepeatInsert",
     "MagicInsert", "DictionaryInsert", "ConstFeedbackInsert", "RandomInsert",
     "SpliceInsert"}

\* C1 (size bound): in every state of mangle_mangleContent - after Resize,
\* after the pre-loop splice, after each operator of the loop and on exit -
\* the size of the input is at most maxInputSz.
C1_SizeBound == size <= maxInputSz

\* An operator of the loop has grown the input up to the cap.
C1_Witness ==
    /\ pc = "done" /\ wmb
    /\ lastOp \in InsertOps \cup {"Expand"}
    /\ entrySize < maxInputSz
    /\ size = maxInputSz

\* C2 (printable preservation): with only_printable set and a printable
\* input on entry, every byte of data[0 .. size) is in [0x20, 0x7E] after
\* every operator and on exit.
C2_PrintablePreserved ==
    only_printable /\ EntryPrintable
    => \A i \in 0..(size - 1) : Rd(Run, i) \in 32..126

\* C3 (no out-of-bounds access): no operator reads or writes
\* run->dynfile->data at an index outside [0, size), size being the one in
\* force at the access.
C3_NoOutOfBounds == ~oob

\* An operator has written the last byte of the input, and nothing past it.
C3_Witness ==
    /\ pc = "done" /\ wmb /\ ~oob
    /\ lastOp = "AddSub"
    /\ size = entrySize /\ size = WideSz - 1
    /\ data[size - 1] # entryData[size - 1]
    /\ data[size] = entryData[size]

\* C4 (no mutation requested): when run->mutationsPerRun is 0 the call
\* returns at once: no Resize, no splice, no operator, no barrier; size and
\* every byte of data are those of entry, whatever the global count, and
\* also for an empty input.
C4_ZeroMutationsUnchanged ==
    runMutationsPerRun = 0 /\ pc # "entry"
    => /\ pc = "done"
       /\ data = entryData /\ size = entrySize
       /\ lastOp = "none" /\ x = 0 /\ ~wmb /\ ~fatal

\* The early return was taken on an empty input although the global count
\* asks for mutations.
C4_Witness ==
    /\ runMutationsPerRun = 0 /\ mutationsPerRun = 1
    /\ pc = "done" /\ entrySize = 0 /\ size = 0

\* C5 (empty-buffer bootstrap): with run->mutationsPerRun > 0, an input
\* empty on entry is resized once, before anything else runs, to a size of
\* at least 1 (an input not empty on entry is not resized); and past the
\* entry step the size is at least 1 in every state, so no operator, Shrink
\* included, brings it below 1 and every mangle_getOffSet sees size >= 1.
C5_Bootstrap ==
    runMutationsPerRun > 0 /\ pc # "entry"
    => /\ size >= 1
       /\ pc = "presplice" => (lastOp = "Resize") = (entrySize = 0)

\* An input empty on entry went through Resize and then a Shrink that left
\* one byte.
C5_Witness ==
    /\ entrySize = 0 /\ runMutationsPerRun > 0
    /\ pc = "done" /\ wmb /\ ~fatal
    /\ lastOp = "Shrink" /\ size = 1

\* C6 (mutate always returns normally): no fatal-log branch is taken,
\* whatever the per-run count, the global count and the random draws are.
C6_NoFatalBranch == ~fatal

\* The dispatcher is about to invoke an operator.
CanInvoke == ~fatal /\ (pc = "presplice" \/ (pc = "loop" /\ x < changesCnt))

\* The flags and the buffer after a step are those of the run r.
Became(r) == data' = r.data /\ size' = r.size /\ oob' = r.oob /\ fatal' = r.fatal

\* A draw d of a Bytes operator, as a Splice operator takes it when
\* input_getRandomInputAsBuf hands back nothing.
NoPrior(d) == [prior |-> <<>>, off |-> d.off, b0 |-> d.b0, b1 |-> d.b1, n |-> d.n]

\* C7, for the operators that are one step: wherever the dispatcher can invoke
\* an operator, on every draw, Dictionary* with dictionaryCnt = 0 and Splice*
\* with an empty prior input leave the run that the Bytes variant of the
\* same kind leaves, with no fatal branch taken.
C7_Operators ==
    CanInvoke
    => \A d \in D_bytes :
         LET ins == mangle_BytesInsert(Run, only_printable, d)
             ovr == mangle_BytesOverwrite(Run, only_printable, d)
         IN  /\ ~ins.fatal /\ ~ovr.fatal
             /\ dictionaryCnt = 0
                  => /\ mangle_DictionaryInsert(Run, only_printable, d) = ins
                     /\ mangle_DictionaryOverwrite(Run, only_printable, d) = ovr
             /\ mangle_SpliceInsert(Run, only_printable, NoPrior(d)) = ins
             /\ mangle_SpliceOverwrite(Run, only_printable, NoPrior(d)) = ovr

\* C7, for ConstFeedback*: with feedback disabled or cnt = 0 the operator
\* completes in the step that reads cnt, as the Bytes variant of the same
\* kind on some draw.
C7_FeedbackStep ==
    pc = "loop" /\ (~cmpFeedback \/ cmpfCnt = 0)
    => /\ pc' \notin {"fb_overwrite", "fb_insert"}
       /\ x' = x + 1 /\ lastOp' = "ConstFeedbackInsert"
            => \E d \in D_bytes : Became(mangle_BytesInsert(Run, only_printable, d))
       /\ x' = x + 1 /\ lastOp' = "ConstFeedbackOverwrite"
            => \E d \in D_bytes : Became(mangle_BytesOverwrite(Run, only_printable, d))

\* C7 (soft fall-through equivalence): an operator whose dictionary, prior
\* input or feedback map is empty or disabled does exactly what the Bytes
\* variant does from the same buffer and draws, and does not abort.
C7_FallThrough == []C7_Operators /\ [][C7_FeedbackStep]_vars

\* DictionaryInsert ran with an empty dictionary and the input grew.
C7_Witness ==
    /\ pc = "done" /\ wmb /\ ~fatal
    /\ dictionaryCnt = 0 /\ changesCnt = 1
    /\ lastOp = "DictionaryInsert"
    /\ size > entrySize

\* C8 (range of mangle_getLen): for 1 <= max <= the cap on input sizes and
\* every draw, the call returns a value of [1, max], 1 when max is 1, with
\* no fatal check fired and the division defined.
C8_GetLenInRange ==
    lenPc = "done" /\ lenMax # <<>> /\ ~Less64(ToU64(HF_INPUT_MAX_SIZE), lenMax)
    => /\ ~lenRes.fatal /\ ~lenRes.trap
       /\ lenRes.ret # <<>> /\ ~Less64(lenMax, lenRes.ret)
       /\ lenMax = ToU64(1) => lenRes.ret = ToU64(1)

\* C9, the primitive: wherever an operator can be invoked with the input at
\* the cap, mangle_Inflate answers 0 and leaves the run
\* as it is, for every offset, every len and both values of printable.
C9_InflateAtCap ==
    CanInvoke /\ size = maxInputSz
    => \A off \in 0..size, len \in 0..(maxInputSz + 1) \cup {HF_MAX_LEN_BLOCK},
          printable \in BOOLEAN :
         mangle_Inflate(Run, off, len, printable) = [run |-> Run, len |-> 0]

\* C9, the operators: an *Insert or Expand applied at the cap leaves size.
C9_InsertStep ==
    size = maxInputSz /\ lastOp' \in InsertOps \cup {"Expand"}
        /\ (x' = x + 1 \/ pc = "presplice")
    => size' = size

\* C9 (inflate at the cap): when size = maxInputSz, mangle_Inflate returns 0
\* and changes neither size nor any byte, and so every *Insert operator and
\* Expand applied at the cap leaves size unchanged.
C9_InflateIdempotentAtCap == []C9_InflateAtCap /\ [][C9_InsertStep]_vars

\* An *Insert operator ran on an input that was at the cap all along.
C9_Witness ==
    /\ pc = "done" /\ wmb /\ ~fatal
    /\ entrySize = maxInputSz /\ size = maxInputSz
    /\ changesCnt = 1 /\ lastOp \in InsertOps

\* C10, the states: the index used into valArr is below ARRAYSIZE(valArr),
\* the size is at most maxInputSz and nothing outside data[0, size) was
\* accessed.
C10_State ==
    /\ pc \in {"fb_overwrite", "fb_insert"} => fbChoice \in 0..(CmpfArrSz - 1)
    /\ size <= maxInputSz
    /\ ~oob /\ ~fatal

\* C10, the steps: a cnt read as 0, or a len read as 0, makes the operator
\* run the Bytes variant of its kind.
C10_Step ==
    /\ pc = "loop" /\ cmpfCnt = 0
         => /\ pc' \notin {"fb_overwrite", "fb_insert"}
            /\ x' = x + 1 /\ lastOp' = "ConstFeedbackInsert"
                 => \E d \in D_bytes :
                      Became(mangle_BytesInsert(Run, only_printable, d))
            /\ x' = x + 1 /\ lastOp' = "ConstFeedbackOverwrite"
                 => \E d \in D_bytes :
                      Became(mangle_BytesOverwrite(Run, only_printable, d))
    /\ pc = "fb_insert" /\ FeedbackEntry.len = 0 /\ x' = x + 1
         => \E d \in D_bytes : Became(mangle_BytesInsert(Run, only_printable, d))
    /\ pc = "fb_overwrite" /\ FeedbackEntry.len = 0 /\ x' = x + 1
         => \E d \in D_bytes : Became(mangle_BytesOverwrite(Run, only_printable, d))

\* C10 (comparison-feedback reads under concurrent update): while another
\* thread stores cnt, len and val in any interleaving with
\* ConstFeedbackOverwrite / ConstFeedbackInsert, the entry index stays below
\* the array size, a cnt or len observed as 0 leads to the Bytes fallback,
\* and the buffer keeps size <= maxInputSz with no access outside [0, size).
C10_FeedbackReadsSafe == []C10_State /\ [][C10_Step]_vars

\* Between the operator's read of cnt and its read of len, the other thread
\* has zeroed cnt and stored an entry longer than the value array.
C10_Witness ==
    /\ pc \in {"fb_overwrite", "fb_insert"}
    /\ cmpfCnt = 0
    /\ fbChoice = CmpfArrSz - 1
    /\ FeedbackEntry.len > CmpfValSz

\* The byte a copy of src[k] leaves in the buffer (remapped in printable mode).
Copied(src, k) ==
    IF only_printable THEN util_turnToPrintable(src[k + 1]) ELSE src[k + 1]

\* C11: mangle_Overwrite(off, src, len) copies exactly n = min(len, size - off)
\* bytes of src to data[off .. off+n), changes no other byte, leaves size
\* unchanged, and writes nothing when off >= size or len = 0, for every off
\* (off > size included).
C11_OverwriteExact ==
    lastOp = "Overwrite" /\ pc = "done"
    => LET n == IF call.off >= entrySize \/ call.len = 0 THEN 0
                ELSE Min(call.len, entrySize - call.off)
       IN  /\ size = entrySize
           /\ ~fatal
           /\ ~oob
           /\ \A i \in DOMAIN data :
                data[i] = IF i >= call.off /\ i < call.off + n
                          THEN Copied(call.src, i - call.off)
                          ELSE entryData[i]

\* C12: mangle_Insert(off, src, len) with off < size and src outside the
\* buffer gives, with actual = min(len, maxInputSz - old size): size = old
\* size + actual, data[0..off) unchanged, data[off..off+actual) = src (remapped
\* into [0x20, 0x7E] in printable mode) and data[off+actual..size) = the old
\* data[off..old size).
C12_InsertSplices ==
    lastOp = "Insert" /\ pc = "done"
    => LET actual == Min(call.len, maxInputSz - entrySize)
       IN  /\ ~fatal /\ ~oob
           /\ size = entrySize + actual
           /\ \A i \in 0..(size - 1) :
                data[i] = IF i < call.off THEN entryData[i]
                          ELSE IF i < call.off + actual
                          THEN Copied(call.src, i - call.off)
                          ELSE entryData[i - actual]

\* An insert in the middle of a two-byte input, the length clamped to the
\* one byte of room.
C12_Witness ==
    /\ lastOp = "Insert" /\ pc = "done"
    /\ entrySize = 2 /\ call.off = 1 /\ call.len = 2
    /\ size = 3
    /\ data[1] = Copied(call.src, 0)
    /\ data[2] = entryData[1]

\* The offset mangle_getOffSet gave for the raw draw rnd on the buffer the
\* call was made on.
ChosenOff(rnd) == mangle_getOffSet([size |-> entrySize], rnd).ret

\* C13: after mangle_MemCopyInsert in non-printable mode, for every off_to and
\* off_from in [0, size) and every len, the inserted region
\* data[off_to .. off_to+actual) holds the bytes that were at
\* data[off_from .. off_from+actual) before the call (actual = the growth of
\* size).
C13_MemCopyInsertSplices ==
    lastOp = "MemCopyInsert" /\ pc = "done" /\ ~only_printable
    => LET off_to == ChosenOff(call.off)
           off_from == ChosenOff(call.off2)
           actual == size - entrySize
       IN  /\ ~fatal
           /\ \A k \in 0..(actual - 1) :
                data[off_to + k] = entryData[off_from + k]

\* C14: util_rndGet(min, max) with min <= max returns r, min <= r <= max,
\* for every pair of uint64_t values (min = 0, max = 2^64 - 1 included) and
\* every entropy value; a short or failed read only logs a warning and the
\* call still returns a value of [min, max] without aborting.
C14_RndGetInRange ==
    rndCall.pc = "done" /\ rndCall.fd # -1 /\ ~Less64(rndCall.max, rndCall.min)
    => /\ ~rndCall.fatal
       /\ ~rndCall.trap
       /\ ~Less64(rndCall.ret, rndCall.min)
       /\ ~Less64(rndCall.max, rndCall.ret)

\* changes_cnt as the claim C15 gives it for slow factor sf and count n.
CountFor(sf, n, cnt) ==
    IF sf <= 2 THEN cnt \in 1..n
    ELSE IF sf <= 4 THEN cnt = Max(n, 5)
    ELSE IF sf <= 9 THEN cnt = Max(n, 7)
    ELSE cnt = Max(n, 10)

\* C15: in every call of mangle_mangleContent with mutationsPerRun > 0 the
\* loop invokes exactly changesCnt operators and then ends, where changesCnt
\* is in [1, mutationsPerRun] for slow_factor 0..2, max(mutationsPerRun, 5)
\* for 3..4, max(mutationsPerRun, 7) for 5..9 and max(mutationsPerRun, 10)
\* from 10 on; so changesCnt >= 1.
C15_OperatorCount ==
    runMutationsPerRun > 0 /\ pc # "entry"
    => /\ ~fatal
       /\ changesCnt >= 1
       /\ CountFor(slow_factor, mutationsPerRun, changesCnt)
       /\ x <= changesCnt
       /\ (pc = "done" => x = changesCnt /\ wmb)
       /\ (pc = "presplice" =>
             \A sf \in 0..12, rnd \in {0, 1, 5} :
                LET cc == mangle_changesCnt(mutationsPerRun, sf, rnd)
                IN  ~cc.fatal /\ CountFor(sf, mutationsPerRun, cc.ret))

SpliceOps == {"SpliceOverwrite", "SpliceInsert"}

\* Where the call is, and what has run so far.
C16_State ==
    /\ pc = "entry" => lastOp = "none" /\ x = 0 /\ ~wmb
    /\ pc = "presplice" => lastOp \in {"none", "Resize"} /\ x = 0 /\ ~wmb
    /\ lastOp = "Resize" => entrySize = 0 /\ x = 0
    /\ wmb => pc = "done" /\ runMutationsPerRun > 0 /\ x = changesCnt

\* One step of the call.
C16_Step ==
    /\ pc = "entry" /\ pc' # "done" => (lastOp' = "Resize" <=> size = 0)
    /\ pc = "entry" /\ size # 0 => UNCHANGED <<data, size>>
    /\ pc = "presplice"
         => /\ pc' = "loop" /\ x' = 0
            /\ elapsed <= 1000 => UNCHANGED <<data, size, lastOp>>
            /\ lastOp' # lastOp => lastOp' \in SpliceOps /\ elapsed > 1000
            /\ <<data, size>>' # <<data, size>> => lastOp' \in SpliceOps
    /\ x' # x => x' = x + 1 /\ x < changesCnt /\ pc # "presplice" /\ pc # "entry"
    /\ <<data, size>>' # <<data, size>> => ~wmb /\ ~wmb'
    /\ wmb' /\ ~wmb => pc = "loop" /\ x = changesCnt /\ UNCHANGED <<data, size>>
    /\ wmb => UNCHANGED <<data, size, lastOp, x>>

\* C16: inside one call of mangle_mangleContent that passes the
\* mutationsPerRun check, the Resize of an empty input comes first (and only
\* if size = 0); then at most one pre-loop splice, only if
\* util_timeNowMillis() - lastCovUpdate > 1000, never at <= 1000; then the
\* changesCnt operators; the write barrier is last, and nothing is written
\* to the buffer after it.
C16_EventOrder == []C16_State /\ [][C16_Step]_vars

\* A call on an empty input, past the threshold: Resize has filled it, the
\* one operator of the loop has run and the barrier has been issued.
C16_Witness ==
    /\ wmb /\ pc = "done"
    /\ entrySize = 0 /\ size > 0
    /\ elapsed > 1000
    /\ x = changesCnt /\ x = 1
    /\ lastOp = "Shrink"

\* C17: mangle_Shrink removes one block: if size <= 2 or the chosen off_start
\* is the last index the buffer is unchanged; otherwise, for the chosen
\* off_start and len with 1 <= len <= old size - off_start - 1, size = old
\* size - len, data[0..off_start) is unchanged and data[off_start..size) is
\* the old data[off_start+len..old size); so size never grows and never
\* falls below off_start + 1.
C17_ShrinkRemovesBlock ==
    lastOp = "Shrink" /\ pc = "done"
    => LET off_start == ChosenOff(call.off)
           left == entrySize - off_start - 1
           len == mangle_getLen(IF call.small % 16 # 0 THEN Min(16, left) ELSE left,
                                call.len).ret
       IN  /\ ~fatal /\ ~oob
           /\ IF entrySize <= 2 \/ off_start = entrySize - 1
              THEN size = entrySize /\ data = entryData
              ELSE /\ len >= 1 /\ len <= left
                   /\ size = entrySize - len
                   /\ \A i \in 0..(size - 1) :
                        data[i] = IF i < off_start THEN entryData[i]
                                  ELSE entryData[i + len]
                   /\ size <= entrySize
                   /\ size >= off_start + 1

\* The first byte of a three-byte input removed.
C17_Witness ==
    /\ lastOp = "Shrink" /\ pc = "done"
    /\ entrySize = 3 /\ size = 2
    /\ ChosenOff(call.off) = 0
    /\ data[0] = entryData[1] /\ data[1] = entryData[2]
    /\ entryData[0] # entryData[1]

ByteOps == {"IncByte", "DecByte", "NegByte"}

\* C18: in printable mode, for every byte b of [0x20, 0x7E] at the chosen
\* offset, mangle_IncByte leaves (b - 32 + 1) mod 95 + 32 and mangle_DecByte
\* (b - 32 + 94) mod 95 + 32, both in [0x20, 0x7E]; DecByte after IncByte and
\* IncByte after DecByte at the same offset restore b; mangle_NegByte leaves
\* 158 - b in [0x20, 0x7E] and twice restores b; each changes only that byte
\* and not the size.
C18_PrintableRing ==
    pc = "done" /\ only_printable /\ lastOp \in ByteOps
    => LET o == ChosenOff(call.off)
           b == entryData[o]
           d == [off |-> call.off]
       IN  b \in 32..126
           => /\ ~fatal /\ ~oob
              /\ size = entrySize
              /\ \A i \in DOMAIN data : i # o => data[i] = entryData[i]
              /\ data[o] \in 32..126
              /\ lastOp = "IncByte"
                   => /\ data[o] = ((b - 32 + 1) % 95) + 32
                      /\ mangle_DecByte(Run, TRUE, d) = [Run EXCEPT !.data = entryData]
              /\ lastOp = "DecByte"
                   => /\ data[o] = ((b - 32 + 94) % 95) + 32
                      /\ mangle_IncByte(Run, TRUE, d) = [Run EXCEPT !.data = entryData]
              /\ lastOp = "NegByte"
                   => /\ data[o] = 158 - b
                      /\ mangle_NegByte(Run, TRUE, d) = [Run EXCEPT !.data = entryData]

\* IncByte on "~", the top of the ring.
C18_Witness ==
    /\ pc = "done" /\ only_printable /\ lastOp = "IncByte"
    /\ ChosenOff(call.off) = 0
    /\ entryData[0] = 126
    /\ data[0] = 32

====
